---------------------------- MODULE Spec2Model ----------------------------
(***************************************************************************)
(* Model of the raw asynchronous I/O context of libaio-rust (src/raw.rs)   *)
(* together with the fixed size pool of control blocks it allocates from   *)
(* (src/pool.rs) and the kernel side of io_submit / io_getevents; of the   *)
(* pool on its own, driven as its unit tests drive it; and of the worker   *)
(* thread of the channel front-end (src/chan.rs) with its inbound channel, *)
(* its event-fd stream and its result channel; of the future front-end    *)
(* (src/future.rs); of the aligned buffer (src/aligned.rs) over words of   *)
(* WordBits bits; of the direct I/O file (src/directio.rs); and of the    *)
(* creation and drop of the kernel context and the timeout that results    *)
(* passes to io_getevents (src/raw.rs).                                    *)
(*                                                                         *)
(* Pointers are integers: slot i of the pool lives at                      *)
(* PoolBase + i * SlotSize, its payload (the Iocb) PayloadOff bytes into   *)
(* the slot, and the ABI control block IocbOff bytes into the payload.     *)
(***************************************************************************)
EXTENDS Integers, Sequences, FiniteSets, TLC

(***************************************************************************)
(* Bounds of the model.                                                    *)
(***************************************************************************)
MaxOps == 2                 \* the maxops passed to Iocontext::new
PoolSize == 3               \* the size passed to Pool::new by the pool tests

\* The caller, as in the test raw_simple: it keeps one buffer (or vector of
\* two buffers) for each kind of transfer, and tags every operation with a
\* token naming its kind; the syncs carry one of two tokens.
BufOf == [pread |-> <<1>>, pwrite |-> <<2>>,
          preadv |-> <<3, 4>>, pwritev |-> <<5, 6>>]
TokOf == [pread |-> {1}, pwrite |-> {2}, preadv |-> {3}, pwritev |-> {4},
          fsync |-> {5, 6}, fdsync |-> {7}]
Bufs == 1..6                \* the buffers (Rb / Wb values) the caller has
SubmitErrnos == {11}        \* io_submit failure: EAGAIN
EventsErrnos == {4}         \* io_getevents failure: EINTR
IovAddrs == {9000}          \* where the allocator may place an iovec array
PoolVals == {11, 12}        \* the payloads the pool tests store
LowWater == 1               \* the lowwater passed to chan::Iocontext::new
EAGAIN == 11                \* libc::EAGAIN

(***************************************************************************)
(* Memory layout.                                                          *)
(***************************************************************************)
PoolBase == 1000            \* self.pool.as_ptr()
SlotSize == 100             \* size_of::<Slot<Iocb<T, Wb, Rb>>>()
PayloadOff == 8             \* offset of the Alloc payload in a Slot
IocbOff == 24               \* offset of the field iocb in an Iocb
HeapBase == 5000            \* where the caller's buffers live
FileFd == 3                 \* file.as_raw_fd()
EventFdNo == 7              \* evfd.as_raw_fd() of the first EventFD made
Off == 77                   \* the offset the caller reads and writes at

BufAddr(b) == HeapBase + 100 * b      \* buf.rdbuf().as_ptr()
BufLen(b) == 10 * b                   \* buf.rdbuf().len()

(***************************************************************************)
(* aioabi.rs                                                               *)
(***************************************************************************)
IO_CMD_PREAD == 0
IO_CMD_PWRITE == 1
IO_CMD_FSYNC == 2
IO_CMD_FDSYNC == 3
IO_CMD_NOOP == 6
IO_CMD_PREADV == 7
IO_CMD_PWRITEV == 8
IOCB_FLAG_RESFD == 1

\* Default for Struct_iocb: all zero
DefaultIocb ==
    [data |-> 0, aio_lio_opcode |-> 0, aio_fildes |-> 0, aio_buf |-> 0,
     aio_count |-> 0, aio_offset |-> 0, aio_flags |-> 0, aio_resfd |-> 0]

(***************************************************************************)
(* IoOp: the operation with the buffers and token it owns.                 *)
(***************************************************************************)
Noop == [kind |-> "Noop", bufs |-> <<>>, tok |-> 0]
IoOp(kind, bufs, tok) == [kind |-> kind, bufs |-> bufs, tok |-> tok]

NoIocb == [iocb |-> DefaultIocb, op |-> Noop]

(***************************************************************************)
(* pool.rs                                                                 *)
(***************************************************************************)
Free(next) == [tag |-> "Free", next |-> next, v |-> NoIocb]
Alloc(t) == [tag |-> "Alloc", next |-> 0, v |-> t]

\* Pool::new
PoolNew(size) ==
    [pool |-> [i \in 0..(size - 1) |-> Free(i - 1)],
     freelist |-> size - 1,
     used |-> 0]

PoolLen(P) == Cardinality(DOMAIN P.pool)

allocidx_nocheck(P, init) ==
    LET idx == P.freelist IN
    IF idx # -1
    THEN [st |-> "Ok", idx |-> idx,
          P |-> [pool |-> [P.pool EXCEPT ![idx] = Alloc(init)],
                 freelist |-> P.pool[idx].next,
                 used |-> P.used + 1]]
    ELSE [st |-> "Err", idx |-> -1, P |-> P]

allocidx_overwrite(P, init) ==
    LET idx == P.freelist IN
    IF idx # -1
    THEN [st |-> "Ok", idx |-> idx,
          P |-> [pool |-> [P.pool EXCEPT ![idx] = Alloc(init)],
                 freelist |-> IF P.pool[idx].tag = "Free"
                              THEN P.pool[idx].next ELSE -1,
                 used |-> P.used + 1]]
    ELSE [st |-> "Err", idx |-> -1, P |-> P]

\* Pool::allocidx
allocidx(P, init) ==
    LET idx == P.freelist IN
    IF idx # -1
    THEN IF P.pool[idx].tag = "Free"
         THEN [st |-> "Ok", idx |-> idx,
               P |-> [pool |-> [P.pool EXCEPT ![idx] = Alloc(init)],
                      freelist |-> P.pool[idx].next,
                      used |-> P.used + 1]]
         ELSE [st |-> "Panic", idx |-> idx, P |-> P]
    ELSE [st |-> "Err", idx |-> -1, P |-> P]

freeidx_nocheck(P, idx) ==
    IF ~(idx < PoolLen(P))
    THEN [st |-> "Panic", v |-> NoIocb, P |-> P]
    ELSE [st |-> "Ok", v |-> P.pool[idx].v,
          P |-> [pool |-> [P.pool EXCEPT ![idx] = Free(idx)],
                 freelist |-> idx,
                 used |-> P.used - 1]]

PtrIdx_up(ptr) == (ptr - PoolBase + SlotSize - 1) \div SlotSize

\* the value freeidx writes into the freed slot
FreedSlot(idx, freelist) == Free(freelist)

\* Pool::freeidx
freeidx(P, idx) ==
    IF ~(idx < PoolLen(P))
    THEN [st |-> "Panic", v |-> NoIocb, P |-> P]
    ELSE LET Q == [pool |-> [P.pool EXCEPT ![idx] = FreedSlot(idx, idx)],
                   freelist |-> idx,
                   used |-> P.used - 1]
         IN  IF P.pool[idx].tag = "Alloc"
             THEN [st |-> "Ok", v |-> P.pool[idx].v, P |-> Q]
             ELSE [st |-> "Panic", v |-> NoIocb, P |-> Q]

\* the index freeptr derives from a pointer
PtrIdx(ptr) == (ptr - PoolBase) \div SlotSize

\* Pool::freeptr
freeptr(P, ptr) ==
    IF ~(ptr >= PoolBase)
    THEN [st |-> "Panic", v |-> NoIocb, P |-> P]
    ELSE freeidx(P, PtrIdx(ptr))

\* IndexMut for Pool: the address of the payload of slot idx
IndexAddr(idx) == PoolBase + idx * SlotSize + PayloadOff

\* Index for Pool: the payload of slot idx, out of range and Free panicking
Index(P, idx) ==
    IF idx \notin DOMAIN P.pool THEN [st |-> "Panic", v |-> NoIocb]
    ELSE IF P.pool[idx].tag = "Free" THEN [st |-> "Panic", v |-> NoIocb]
    ELSE [st |-> "Ok", v |-> P.pool[idx].v]

\* Pool::used
used(P) == P.used

\* Pool::avail
avail(P) == PoolLen(P) - used(P)


(***************************************************************************)
(* raw.rs: the state of one Iocontext, of the kernel context behind it     *)
(* and of its caller.                                                      *)
(***************************************************************************)
VARIABLES
    iocb,       \* Iobatch.iocb: the Pool of control blocks
    iocbp,      \* Iobatch.iocbp: the pending vector of control block addresses
    submitted,  \* Iocontext.submitted
    evfd,       \* Iocontext.evfd: 0 for None, else the event-fd descriptor
    heap,       \* the addresses of the live heap allocations
    inflight,   \* kernel: the control blocks accepted, their events not yet
                \* reported
    owned,      \* caller: the buffers the caller holds
    order,      \* history: the control block addresses of the operations
                \* queued and not yet accepted by the kernel, in the order
                \* of the queueing calls
    queued,     \* history: control block address -> the operation queued
                \* there and not yet returned by results
    tpool,      \* pool tests: the Pool under test (p in the tests)
    pcall,      \* pool tests: the last call made on it, with its argument
    pret,       \* pool tests: what that call returned
    refill,     \* pool tests, history: how far the calls so far are through
                \* filling the pool, freeing everything and filling it again
    inq,        \* channel front-end: the closures waiting in the inbound
                \* channel (optx / oprx), each the call it makes and its token
    cclosed,    \* channel front-end: the client dropped its Iocontext
    tosend,     \* channel front-end: the calls the client has yet to make
    closed,     \* worker: the local closed
    pc,         \* worker: its position in ChanWorker::worker
    wop,        \* worker: the closure op it received and is executing
    ring,       \* kernel: the events of completed operations, not harvested
    evmsgs,     \* the counter reads on the event-fd stream, made or to be
                \* made by the reader of the event-fd, that the worker has
                \* not received
    resq,       \* history: the messages sent on the result channel (restx)
    ftodo,      \* future front-end: the calls its caller has yet to make,
                \* each named by the token of the operation
    fpc,        \* future front-end: the position of the caller in flush
    fret,       \* future front-end: what the last flush returned
    futs,       \* future front-end: token -> the Future the call returned
    fval,       \* future front-end: token -> the value of that Future when
                \* it was made from a value
    sent,       \* history: token -> the messages sent on the single-shot
                \* channel made by the call that queued the operation
    abuf,       \* aligned buffers: the AlignedBuf of the caller, if any
    aclone,     \* aligned buffers: the last clone made of it, if any
    acall,      \* aligned buffers: the last call made, with its arguments
    aret,       \* aligned buffers: what that call returned
    dfile,      \* direct I/O: the DirectFile of the caller, if opened
    dcall,      \* direct I/O: the call in progress or just returned
    dtry,       \* direct I/O: the system calls of that call interrupted so far
    dret,       \* direct I/O: what that call returned
    cst,        \* the raw context as its owner has it: "none" before
                \* Iocontext::new, "live", "err" when new returned Err,
                \* "dropped"
    cerr,       \* the code of the io::Error that new returned
    destroys,   \* history: the calls of io_destroy made, each with the
                \* context handle passed and the value returned
    tmo,        \* the timeout (Option<Duration>) a caller passes to results
    tsarg,      \* the timeout argument results made of it for io_getevents
    call,       \* caller: the call that has just returned (name "none"
                \* between calls) with the operation or max passed to it,
                \* whether it entered the kernel, and what the kernel
                \* returned and reported to it
    ret,        \* what that call returned
    panic       \* "none", or the message of the panic that ended the program

rawvars == <<iocb, iocbp, submitted, evfd, heap, inflight, owned, order,
             queued, call, ret, panic>>

poolvars == <<tpool, pcall, pret, refill>>

chanvars == <<inq, cclosed, tosend, closed, pc, wop, ring, evmsgs,
              resq>>

futvars == <<ftodo, fpc, fret, futs, fval, sent>>

\* the variables of the front-ends and types built beside the raw context
bufvars == <<abuf, aclone, acall, aret>>

diovars == <<dfile, dcall, dtry, dret>>

ctxvars == <<cst, cerr, destroys>>

timevars == <<tmo, tsarg>>

libvars == <<futvars, bufvars, diovars, ctxvars, timevars>>

vars == <<rawvars, poolvars, chanvars, libvars>>

maxops == MaxOps

\* Iocontext::batched
batched == Len(iocbp)

\* Iocontext::pending
pending == batched + submitted

full_off_by_one == pending > maxops

\* Iocontext::full
full == pending >= maxops

Range(s) == {s[i] : i \in DOMAIN s}

\* the addresses of the embedded control blocks of the pool's slots
IocbAddrs == {IndexAddr(i) + IocbOff : i \in 0..(maxops - 1)}

Call(name, op, max, syscall, kret, events) ==
    [name |-> name, op |-> op, max |-> max, syscall |-> syscall,
     kret |-> kret, events |-> events]

RetOk(n, pairs) == [tag |-> "Ok", op |-> Noop, n |-> n, pairs |-> pairs]
RetErrOp(op) == [tag |-> "Err", op |-> op, n |-> 0, pairs |-> <<>>]
RetErrno(e) == [tag |-> "Err", op |-> Noop, n |-> e, pairs |-> <<>>]
RetPanic == [tag |-> "Panic", op |-> Noop, n |-> 0, pairs |-> <<>>]
NoRet == [tag |-> "None", op |-> Noop, n |-> 0, pairs |-> <<>>]
Idle == Call("none", Noop, 0, FALSE, 0, <<>>)

\* the caller is between two calls and the program has not panicked
Ready == panic = "none" /\ call = Idle

\* a closure on the inbound channel: the call it makes on the context
Msg(kind, tok) == [kind |-> kind, tok |-> tok]
NoMsg == Msg("none", 0)

\* The calls the client of the channel front-end makes, each once and in
\* any order: those of the test simple of chan.rs and a sync.
ChanMsgs ==
    {Msg("pread", t) : t \in TokOf.pread}
    \cup {Msg("pwrite", t) : t \in TokOf.pwrite}
    \cup {Msg("fsync", 5), Msg("flush", 0)}

\* no value: the Future was made from a receiver, or not made yet
NoVal == [res |-> [tag |-> "None", n |-> 0], bufs |-> <<>>]

\* Option<Duration>: None, and Some of a duration of secs seconds and
\* nanos nanoseconds, 0 <= nanos < 10^9
NoDuration == [tag |-> "None", secs |-> 0, nanos |-> 0]
SomeDuration(secs, nanos) == [tag |-> "Some", secs |-> secs, nanos |-> nanos]

\* no call of results made yet
NoTimespec == [st |-> "unset", tv_sec |-> 0, tv_nsec |-> 0]

\* no AlignedBuf: the caller has made none, or has dropped it
NoBuf == [st |-> "none", align |-> 0, len |-> 0, valid |-> 0, bytes |-> <<>>]

\* no DirectFile: the caller has opened none
NoFile == [st |-> "none", fd |-> 0, alignment |-> 0]

\* The variant of IoFut each token of the future front-end is, which is
\* the call that made its channel.
IoFut == [t \in {1, 2, 3, 5, 7} |->
            CASE t = 1 -> "Pread" [] t = 2 -> "Pwrite" [] t = 3 -> "Preadv"
              [] OTHER -> "Fsync"]

\* The calls the caller of the future front-end makes, each once and in
\* any order: pread, pwrite, preadv, fsync and fdsync; flush at any time.
FutCalls == DOMAIN IoFut

\* Iocontext::new, with io_queue_init succeeding
Init ==
    /\ iocb = PoolNew(maxops)
    /\ iocbp = <<>>
    /\ submitted = 0
    /\ evfd = 0
    /\ heap = {BufAddr(b) : b \in Bufs}
    /\ inflight = {}
    /\ owned = Bufs
    /\ order = <<>>
    /\ queued = [a \in IocbAddrs |-> Noop]
    /\ call = Idle
    /\ ret = NoRet
    /\ panic = "none"
    /\ tpool = PoolNew(PoolSize)
    /\ pcall = [name |-> "new", arg |-> PoolSize]
    /\ pret = [tag |-> "Ok", v |-> 0]
    /\ refill = [stage |-> "fill", n |-> 0]
    /\ inq = <<>>
    /\ cclosed = FALSE
    /\ tosend = {}
    /\ closed = FALSE
    /\ pc = "top"
    /\ wop = NoMsg
    /\ ring = <<>>
    /\ evmsgs = 0
    /\ resq = <<>>
    /\ ftodo = FutCalls
    /\ fpc = "idle"
    /\ fret = "none"
    /\ futs = [t \in FutCalls |-> "none"]
    /\ sent = [t \in FutCalls |-> <<>>]
    /\ fval = [t \in FutCalls |-> NoVal]
    /\ abuf = NoBuf
    /\ aclone = NoBuf
    /\ acall = [name |-> "none", a |-> 0, b |-> 0]
    /\ aret = [tag |-> "None", v |-> 0, view |-> <<>>]
    /\ dfile = NoFile
    /\ dcall = [name |-> "none", off |-> 0]
    /\ dtry = 0
    /\ dret = [tag |-> "None", n |-> 0]
    /\ cst = "live"
    /\ cerr = 0
    /\ destroys = <<>>
    /\ tmo = NoDuration
    /\ tsarg = NoTimespec

\* Iocontext::pack_iocb
pack_iocb(opcode, off) ==
    [DefaultIocb EXCEPT
        !.aio_lio_opcode = opcode,
        !.aio_fildes = FileFd,
        !.aio_offset = off,
        !.aio_flags = IF evfd # 0 THEN IOCB_FLAG_RESFD ELSE 0,
        !.aio_resfd = IF evfd # 0 THEN evfd ELSE 0,
        !.data = 0]

Push_front(v, p) == <<p>> \o v

\* Vec::push
Push(v, p) == Append(v, p)

\* Iobatch::alloc_iocb: the slot allocated, the pointer pushed on the batch
alloc_iocb(P, v, init) ==
    LET r == allocidx(P, init) IN
    IF r.st = "Ok"
    THEN [st |-> "Ok", ptr |-> IndexAddr(r.idx), P |-> r.P,
          iocbp |-> Push(v, IndexAddr(r.idx) + IocbOff)]
    ELSE [st |-> r.st, ptr |-> 0, P |-> P, iocbp |-> v]

SetData_pool(P, ptr) ==
    [P EXCEPT !.pool[PtrIdx(ptr)].v.iocb.data = PoolBase]

\* Iocontext::prep_iocb: the back-pointer stored in data after allocation
SetData(P, ptr) ==
    [P EXCEPT !.pool[PtrIdx(ptr)].v.iocb.data = ptr]

\* the heap after the iovec array of a vector operation went out of scope
DropIov(h, iov) == h \ iov

\* The body shared by the six queueing calls: name is the call, op the
\* operation built from the arguments, cb the control block, iov the
\* address of the local iovec array ({} for the other operations).
Queue(name, op, cb, iov) ==
    /\ Ready
    /\ UNCHANGED <<poolvars, chanvars, libvars>>
    /\ call' = Call(name, op, 0, FALSE, 0, <<>>)
    /\ UNCHANGED <<submitted, evfd, inflight>>
    /\ IF full
       THEN /\ ret' = RetErrOp(op)
            /\ UNCHANGED <<iocb, iocbp, heap, owned, order, queued, panic>>
       ELSE LET a == alloc_iocb(iocb, iocbp, [iocb |-> cb, op |-> op]) IN
            IF a.st = "Ok"
            THEN /\ iocb' = SetData(a.P, a.ptr)
                 /\ iocbp' = a.iocbp
                 /\ heap' = DropIov(heap \cup iov, iov)
                 /\ owned' = owned \ Range(op.bufs)
                 /\ order' = Append(order, a.ptr + IocbOff)
                 /\ queued' = [queued EXCEPT ![a.ptr + IocbOff] = op]
                 /\ ret' = RetOk(0, <<>>)
                 /\ UNCHANGED panic
            ELSE \* unwinding drops the Iocb with the buffers it owns
                 /\ panic' = IF a.st = "Err" THEN "alloc failed but not full"
                                             ELSE "idx not free"
                 /\ ret' = RetPanic
                 /\ heap' = heap \ ({BufAddr(b) : b \in Range(op.bufs)} \cup iov)
                 /\ owned' = owned \ Range(op.bufs)
                 /\ UNCHANGED <<iocb, iocbp, order, queued>>

\* Iocontext::pread
pread(buf, tok) ==
    /\ buf \in owned
    /\ Queue("pread", IoOp("Pread", <<buf>>, tok),
             [pack_iocb(IO_CMD_PREAD, Off) EXCEPT
                 !.aio_buf = BufAddr(buf), !.aio_count = BufLen(buf)],
             {})

\* Iocontext::preadv
preadv(buf, tok, iov) ==
    /\ Range(buf) \subseteq owned
    /\ iov \notin heap
    /\ Queue("preadv", IoOp("Preadv", buf, tok),
             [pack_iocb(IO_CMD_PREADV, Off) EXCEPT
                 !.aio_buf = iov, !.aio_count = Len(buf)],
             {iov})

\* Iocontext::pwrite
pwrite(buf, tok) ==
    /\ buf \in owned
    /\ Queue("pwrite", IoOp("Pwrite", <<buf>>, tok),
             [pack_iocb(IO_CMD_PWRITE, Off) EXCEPT
                 !.aio_buf = BufAddr(buf), !.aio_count = BufLen(buf)],
             {})

\* Iocontext::pwritev
pwritev(bufv, tok, iov) ==
    /\ Range(bufv) \subseteq owned
    /\ iov \notin heap
    /\ Queue("pwritev", IoOp("Pwritev", bufv, tok),
             [pack_iocb(IO_CMD_PWRITEV, Off) EXCEPT
                 !.aio_buf = iov, !.aio_count = Len(bufv)],
             {iov})

\* Iocontext::fsync
fsync(tok) ==
    Queue("fsync", IoOp("Fsync", <<>>, tok), pack_iocb(IO_CMD_FSYNC, 0), {})

\* Iocontext::fdsync
fdsync(tok) ==
    Queue("fdsync", IoOp("Fdsync", <<>>, tok), pack_iocb(IO_CMD_FDSYNC, 0), {})

(***************************************************************************)
(* submit                                                                  *)
(***************************************************************************)
\* what the kernel reads at the address of a control block
MemIocb(P, p) ==
    LET i == PtrIdx(p) IN
    IF i \in DOMAIN P.pool /\ P.pool[i].tag = "Alloc"
       /\ p = IndexAddr(i) + IocbOff
    THEN P.pool[i].v.iocb
    ELSE DefaultIocb

\* io_submit accepting the first k control blocks of the array
KernelAccept(P, v, k) ==
    {[obj |-> v[i], cb |-> MemIocb(P, v[i])] : i \in 1..k}

\* the addresses of o that are not among the control blocks in S
NotAccepted(o, S) ==
    LET Keep(a) == \A x \in S : x.obj # a IN SelectSeq(o, Keep)

RemoveFront_once(v, r) == IF r = 0 THEN v ELSE Tail(v)

RemoveFront_pop(v, r) == SubSeq(v, 1, Len(v) - r)

\* the loop of submit: r times remove(0), leaving early on a null pointer
RECURSIVE RemoveFront(_, _)
RemoveFront(v, r) ==
    IF r = 0 THEN v
    ELSE IF Head(v) = 0 THEN Tail(v)
    ELSE RemoveFront(Tail(v), r - 1)

SubmittedAfter_all(sub, r, n) == sub + n

\* the value submit gives submitted after the kernel returned r for n blocks
SubmittedAfter(sub, r, n) == sub + r

OsError_raw(r) == r

\* the errno of an io::Error made from a negative return value r
OsError(r) == -r

\* Iocontext::submit, the kernel returning r: io_submit(2) of a batch that
\* is not empty returns the number of blocks it accepted, at least one, or
\* a negative errno
submit(r) ==
    /\ Ready
    /\ UNCHANGED <<poolvars, chanvars, libvars>>
    /\ UNCHANGED <<iocb, evfd, heap, owned, queued, panic>>
    /\ IF Len(iocbp) = 0
       THEN /\ call' = Call("submit", Noop, 0, FALSE, 0, <<>>)
            /\ ret' = RetOk(0, <<>>)
            /\ UNCHANGED <<iocbp, submitted, inflight, order>>
       ELSE /\ r \in 1..Len(iocbp) \/ -r \in SubmitErrnos
            /\ call' = Call("submit", Noop, 0, TRUE, r, <<>>)
            /\ IF r < 0
               THEN /\ ret' = RetErrno(OsError(r))
                    /\ UNCHANGED <<iocbp, submitted, inflight, order>>
               ELSE /\ inflight' = inflight \cup KernelAccept(iocb, iocbp, r)
                    /\ iocbp' = RemoveFront(iocbp, r)
                    /\ order' = NotAccepted(order, KernelAccept(iocb, iocbp, r))
                    /\ submitted' = SubmittedAfter(submitted, r, Len(iocbp))
                    /\ ret' = RetOk(r, <<>>)

(***************************************************************************)
(* results                                                                 *)
(***************************************************************************)
DefaultEvent == [data |-> 0, obj |-> 0, res |-> 0]

\* the res values the kernel may report for an operation: -EIO, or the
\* byte count of a transfer, or 0 for a sync
ResVals(opcode) ==
    IF opcode \in {IO_CMD_FSYNC, IO_CMD_FDSYNC} THEN {-5, 0} ELSE {-5, 3}

\* The event sequences io_getevents may report: at most n of the control
\* blocks in S, each once, in any order, with any result.
RECURSIVE EventSeqs(_, _)
EventSeqs(S, n) ==
    IF n = 0 THEN {<<>>}
    ELSE {<<>>} \cup UNION {
            {<<[data |-> x.cb.data, obj |-> x.obj, res |-> res]>> \o s :
                res \in ResVals(x.cb.aio_lio_opcode),
                s \in EventSeqs(S \ {x}, n - 1)} : x \in S}

\* the control blocks that the events evs complete
Completed(S, evs) == {x \in S : \E i \in DOMAIN evs : evs[i].obj = x.obj}

\* the scratch vector after io_getevents stored the events evs in it
GetEvents(max, evs) ==
    [i \in 1..max |-> IF i <= Len(evs) THEN evs[i] ELSE DefaultEvent]

Truncate_none(v, r) == v

\* Vec::truncate
Truncate(v, r) == IF r < Len(v) THEN SubSeq(v, 1, r) ELSE v

EvRes_le(res) ==
    IF res <= 0 THEN [tag |-> "Err", n |-> OsError(res)]
                ELSE [tag |-> "Ok", n |-> res]

\* the io::Result made from the res field of an event
EvRes(res) ==
    IF res < 0 THEN [tag |-> "Err", n |-> OsError(res)]
               ELSE [tag |-> "Ok", n |-> res]

free_iocb_keep(P, ptr) == [freeptr(P, ptr) EXCEPT !.P = P]

\* Iobatch::free_iocb
free_iocb(P, ptr) == freeptr(P, ptr)

\* the closure results maps over the events, in their order
RECURSIVE Harvest(_, _, _, _)
Harvest(P, sub, evs, pairs) ==
    IF evs = <<>>
    THEN [st |-> "Ok", P |-> P, submitted |-> sub, pairs |-> pairs]
    ELSE LET ev == Head(evs)
             f == free_iocb(P, ev.data)
         IN  IF sub = 0 \/ f.st # "Ok"
             THEN [st |-> "Panic", P |-> f.P, submitted |-> sub,
                   pairs |-> pairs]
             ELSE Harvest(f.P, sub - 1, Tail(evs),
                          Append(pairs, [op |-> f.v.op, res |-> EvRes(ev.res)]))

\* Iocontext::results with a scratch vector of max events, io_getevents
\* failing with -errno
results_err(max, errno) ==
    /\ Ready
    /\ UNCHANGED <<poolvars, chanvars, libvars>>
    /\ errno \in EventsErrnos
    /\ call' = Call("results", Noop, max, TRUE, -errno, <<>>)
    /\ ret' = RetErrno(OsError(-errno))
    /\ UNCHANGED <<iocb, iocbp, submitted, evfd, heap, inflight, owned,
                   order, queued, panic>>

\* Iocontext::results with a scratch vector of max events, io_getevents
\* reporting the events evs, one of EventSeqs(inflight, max)
results(max, evs) ==
    /\ Ready
    /\ UNCHANGED <<poolvars, chanvars, libvars>>
    /\ \E h \in {Harvest(iocb, submitted,
                          Truncate(GetEvents(max, evs), Len(evs)), <<>>)} :
           /\ call' = Call("results", Noop, max, TRUE, Len(evs), evs)
           /\ inflight' = inflight \ Completed(inflight, evs)
           /\ iocb' = h.P
           /\ submitted' = h.submitted
           /\ owned' = owned \cup
                UNION {Range(h.pairs[i].op.bufs) : i \in DOMAIN h.pairs}
           /\ IF h.st = "Ok"
              THEN ret' = RetOk(Len(h.pairs), h.pairs) /\ UNCHANGED panic
              ELSE ret' = RetPanic /\ panic' = "results"
    /\ queued' = [a \in IocbAddrs |->
                    IF \E i \in DOMAIN evs : evs[i].obj = a THEN Noop
                    ELSE queued[a]]
    /\ UNCHANGED <<iocbp, evfd, heap, order>>

\* the descriptors EventFD::new may return
EventFds == {EventFdNo, EventFdNo + 1}

EvfdAfter_renew(cur, fd) == fd

\* self.evfd after get_evfd_stream, fd being what EventFD::new would return
EvfdAfter(cur, fd) == IF cur = 0 THEN fd ELSE cur

\* Iocontext::get_evfd_stream, EventFD::new succeeding or not
get_evfd_stream(ok) ==
    /\ Ready
    /\ UNCHANGED <<poolvars, chanvars, libvars>>
    /\ call' = Call("get_evfd_stream", Noop, 0, evfd = 0, 0, <<>>)
    /\ IF evfd = 0 /\ ~ok
       THEN ret' = RetErrno(24) /\ UNCHANGED evfd
       ELSE /\ ret' = RetOk(0, <<>>)
            /\ \E fd \in EventFds : evfd' = EvfdAfter(evfd, fd)
    /\ UNCHANGED <<iocb, iocbp, submitted, heap, inflight, owned, order,
                   queued, panic>>

\* the caller takes the value the call returned and goes on
Return ==
    /\ panic = "none"
    /\ UNCHANGED <<poolvars, chanvars, libvars>>
    /\ call # Idle
    /\ call' = Idle
    /\ ret' = NoRet
    /\ UNCHANGED <<iocb, iocbp, submitted, evfd, heap, inflight, owned,
                   order, queued, panic>>

\* the queueing calls of the caller
QueueCalls ==
    \/ \E t \in TokOf.pread : pread(BufOf.pread[1], t)
    \/ \E t \in TokOf.pwrite : pwrite(BufOf.pwrite[1], t)
    \/ \E t \in TokOf.preadv, a \in IovAddrs : preadv(BufOf.preadv, t, a)
    \/ \E t \in TokOf.pwritev, a \in IovAddrs : pwritev(BufOf.pwritev, t, a)
    \/ \E t \in TokOf.fsync : fsync(t)
    \/ \E t \in TokOf.fdsync : fdsync(t)

Next ==
    \/ QueueCalls
    \/ \E r \in -11..MaxOps : submit(r)
    \/ \E max \in {1, MaxOps} : \E evs \in EventSeqs(inflight, max) :
            results(max, evs)
    \/ \E max \in {1, MaxOps}, e \in EventsErrnos : results_err(max, e)
    \/ Return

Spec == Init /\ [][Next]_vars

\* The context with the completion event-fd in use, its caller doing
\* scalar reads, scalar writes and syncs as in the test simple of chan.rs.
NextEvfd ==
    \/ \E ok \in BOOLEAN : get_evfd_stream(ok)
    \/ \E t \in TokOf.pread : pread(BufOf.pread[1], t)
    \/ \E t \in TokOf.pwrite : pwrite(BufOf.pwrite[1], t)
    \/ \E t \in TokOf.fsync : fsync(t)
    \/ \E r \in -11..MaxOps : submit(r)
    \/ \E max \in {1, MaxOps} : \E evs \in EventSeqs(inflight, max) :
            results(max, evs)
    \/ \E max \in {1, MaxOps}, e \in EventsErrnos : results_err(max, e)
    \/ Return

SpecEvfd == Init /\ [][NextEvfd]_vars

(***************************************************************************)
(* pool.rs, mod test: a Pool of integers driven by calls in any order.     *)
(* A panic ends the test.                                                  *)
(***************************************************************************)
PRet(tag, v) == [tag |-> tag, v |-> v]

\* the pointers the tests pass to freeptr: the start, the payload and the
\* last byte of every slot, the same one slot past the end, and the
\* address 256 bytes below the first payload
TestPtrs ==
    {PoolBase + i * SlotSize + o :
        i \in 0..PoolSize, o \in {0, PayloadOff, SlotSize - 1}}
    \cup {IndexAddr(0) - 256}

\* the progress through allocating PoolSize payloads, freeing all of them
\* and allocating again, after one more successful or failed call
RefillAfter(h, name, ok) ==
    IF h.stage = "off" THEN h
    ELSE IF name = "allocidx" /\ h.stage = "fill" /\ ok
    THEN IF h.n + 1 = PoolSize THEN [stage |-> "drain", n |-> 0]
                               ELSE [h EXCEPT !.n = h.n + 1]
    ELSE IF name \in {"freeidx", "freeptr"} /\ h.stage = "drain" /\ ok
    THEN IF h.n + 1 = PoolSize THEN [stage |-> "refill", n |-> 0]
                               ELSE [h EXCEPT !.n = h.n + 1]
    ELSE IF name = "allocidx" /\ h.stage = "refill" /\ ok
    THEN [h EXCEPT !.n = h.n + 1]
    ELSE IF name \in {"index", "index_mut"} THEN h
    ELSE [stage |-> "off", n |-> 0]

PoolReady == pret.tag # "Panic"

\* p.allocidx(init)
test_allocidx(init) ==
    /\ PoolReady
    /\ LET r == allocidx(tpool, init) IN
       /\ tpool' = r.P
       /\ pcall' = [name |-> "allocidx", arg |-> init]
       /\ pret' = PRet(r.st, IF r.st = "Ok" THEN r.idx ELSE init)
       /\ refill' = RefillAfter(refill, "allocidx", r.st = "Ok")
    /\ UNCHANGED <<rawvars, chanvars, libvars>>

\* p.freeidx(idx)
test_freeidx(idx) ==
    /\ PoolReady
    /\ LET r == freeidx(tpool, idx) IN
       /\ tpool' = r.P
       /\ pcall' = [name |-> "freeidx", arg |-> idx]
       /\ pret' = PRet(r.st, IF r.st = "Ok" THEN r.v ELSE 0)
       /\ refill' = RefillAfter(refill, "freeidx", r.st = "Ok")
    /\ UNCHANGED <<rawvars, chanvars, libvars>>

\* p.freeptr(ptr)
test_freeptr(ptr) ==
    /\ PoolReady
    /\ LET r == freeptr(tpool, ptr) IN
       /\ tpool' = r.P
       /\ pcall' = [name |-> "freeptr", arg |-> ptr]
       /\ pret' = PRet(r.st, IF r.st = "Ok" THEN r.v ELSE 0)
       /\ refill' = RefillAfter(refill, "freeptr", r.st = "Ok")
    /\ UNCHANGED <<rawvars, chanvars, libvars>>

\* p[idx], read
test_index(idx) ==
    /\ PoolReady
    /\ LET r == Index(tpool, idx) IN
       /\ pcall' = [name |-> "index", arg |-> idx]
       /\ pret' = PRet(r.st, IF r.st = "Ok" THEN r.v ELSE 0)
    /\ UNCHANGED <<tpool, refill>>
    /\ UNCHANGED <<rawvars, chanvars, libvars>>

\* p[idx] = val
test_index_mut(idx, val) ==
    /\ PoolReady
    /\ LET r == Index(tpool, idx) IN
       /\ pcall' = [name |-> "index_mut", arg |-> idx]
       /\ pret' = PRet(r.st, 0)
       /\ tpool' = IF r.st = "Ok" THEN [tpool EXCEPT !.pool[idx] = Alloc(val)] ELSE tpool
    /\ UNCHANGED refill
    /\ UNCHANGED <<rawvars, chanvars, libvars>>

NextPool ==
    \/ \E v \in PoolVals : test_allocidx(v)
    \/ \E i \in 0..PoolSize : test_freeidx(i)
    \/ \E a \in TestPtrs : test_freeptr(a)
    \/ \E i \in 0..PoolSize : test_index(i)
    \/ \E i \in 0..PoolSize, v \in PoolVals : test_index_mut(i, v)

SpecPool == Init /\ [][NextPool]_vars


(***************************************************************************)
(* chan.rs: the channel front-end.  A client sends closures on the bounded *)
(* inbound channel and may drop its end; the worker thread owns the raw    *)
(* context above and calls it; the kernel completes what it accepted and   *)
(* signals the event-fd, whose counter a reader thread turns into a stream.*)
(***************************************************************************)
\* chan::Iocontext::new: the raw context with its event-fd stream made, the
\* worker at the top of its loop
InitChan ==
    /\ iocb = PoolNew(maxops)
    /\ iocbp = <<>>
    /\ submitted = 0
    /\ evfd = EventFdNo
    /\ heap = {BufAddr(b) : b \in Bufs}
    /\ inflight = {}
    /\ owned = Bufs
    /\ order = <<>>
    /\ queued = [a \in IocbAddrs |-> Noop]
    /\ call = Idle
    /\ ret = NoRet
    /\ panic = "none"
    /\ tpool = PoolNew(PoolSize)
    /\ pcall = [name |-> "new", arg |-> PoolSize]
    /\ pret = [tag |-> "Ok", v |-> 0]
    /\ refill = [stage |-> "fill", n |-> 0]
    /\ inq = <<>>
    /\ cclosed = FALSE
    /\ tosend = ChanMsgs
    /\ closed = FALSE
    /\ pc = "top"
    /\ wop = NoMsg
    /\ ring = <<>>
    /\ evmsgs = 0
    /\ resq = <<>>
    /\ ftodo = FutCalls
    /\ fpc = "idle"
    /\ fret = "none"
    /\ futs = [t \in FutCalls |-> "none"]
    /\ sent = [t \in FutCalls |-> <<>>]
    /\ fval = [t \in FutCalls |-> NoVal]
    /\ abuf = NoBuf
    /\ aclone = NoBuf
    /\ acall = [name |-> "none", a |-> 0, b |-> 0]
    /\ aret = [tag |-> "None", v |-> 0, view |-> <<>>]
    /\ dfile = NoFile
    /\ dcall = [name |-> "none", off |-> 0]
    /\ dtry = 0
    /\ dret = [tag |-> "None", n |-> 0]
    /\ cst = "live"
    /\ cerr = 0
    /\ destroys = <<>>
    /\ tmo = NoDuration
    /\ tsarg = NoTimespec

\* the buffers moved into closures that the worker has not executed yet
InMsgs ==
    UNION {IF m.kind \in DOMAIN BufOf THEN Range(BufOf[m.kind]) ELSE {} :
              m \in Range(inq) \cup {wop}}

\* chan::Iocontext::pread .. fdsync and flush: self.optx.send(closure) on
\* the channel made by sync_channel(max)
send(m) ==
    /\ ~cclosed
    /\ m \in tosend
    /\ Len(inq) < maxops
    /\ m.kind \in DOMAIN BufOf =>
          Range(BufOf[m.kind]) \subseteq owned \ InMsgs
    /\ inq' = Append(inq, m)
    /\ tosend' = tosend \ {m}
    /\ UNCHANGED <<rawvars, poolvars, libvars, cclosed, closed, pc, wop, ring, evmsgs, resq>>

\* the client drops its Iocontext and with it the sending end optx
drop_optx ==
    /\ ~cclosed
    /\ cclosed' = TRUE
    /\ UNCHANGED <<rawvars, poolvars, libvars, inq, tosend, closed, pc, wop, ring,
                   evmsgs, resq>>

\* The kernel completes an accepted operation: it stores the event and
\* adds one to the counter of the event-fd named by the control block.
\* The reader behind EventFD::events reads the counter, which resets it,
\* and sends the value on the stream: the addition makes a counter read
\* of its own (fresh) or joins the one before it that the reader has not
\* made yet, which then the worker has not received.
complete(x, res, fresh) ==
    /\ x \in inflight
    /\ \A i \in DOMAIN ring : ring[i].obj # x.obj
    /\ res \in ResVals(x.cb.aio_lio_opcode)
    /\ ring' = Append(ring, [data |-> x.cb.data, obj |-> x.obj, res |-> res])
    /\ fresh \/ evmsgs > 0
    /\ evmsgs' = IF x.cb.aio_flags = IOCB_FLAG_RESFD /\ fresh
                 THEN evmsgs + 1 ELSE evmsgs
    /\ UNCHANGED <<rawvars, poolvars, libvars, inq, cclosed, tosend, closed, pc, wop,
                   resq>>

\* the worker takes what the call it made returned and moves to pc npc
Resume(npc) ==
    /\ pc' = npc
    /\ call' = Idle
    /\ ret' = NoRet
    /\ UNCHANGED <<iocb, iocbp, submitted, evfd, heap, inflight, owned,
                   order, queued>>

\* the worker panics with message msg
Fatal(msg) ==
    /\ pc' = "panicked"
    /\ panic' = msg
    /\ call' = Idle
    /\ ret' = NoRet
    /\ UNCHANGED <<iocb, iocbp, submitted, evfd, heap, inflight, owned,
                   order, queued>>

LoopCond_closed(cl, pend) == ~cl

\* ChanWorker::worker: the condition of the while loop
LoopCond(cl, pend) == ~cl \/ pend # 0

OverLowWater_never(b, low) == FALSE

\* ChanWorker::worker: the low-water test
OverLowWater(b, low) == b > low

\* ChanWorker::worker: the loop condition and the low-water test
worker_top ==
    /\ pc = "top"
    /\ panic = "none"
    /\ pc' = IF LoopCond(closed, pending)
             THEN IF OverLowWater(batched, LowWater) THEN "low_submit"
                  ELSE "wait"
             ELSE "done"
    /\ UNCHANGED <<rawvars, poolvars, libvars, inq, cclosed, tosend, closed, wop, ring,
                   evmsgs, resq>>

\* ChanWorker::submit, called for the low-water mark or on close: the call
\* of Iocontext::submit
worker_submit(r) ==
    /\ pc \in {"low_submit", "close_submit"}
    /\ submit(r)

\* ChanWorker::submit: the match on what Iocontext::submit returned
worker_submitted ==
    /\ pc \in {"low_submit", "close_submit"}
    /\ call.name = "submit"
    /\ IF ret.tag = "Err"
       THEN Fatal("submit failed")
       ELSE Resume(IF pc = "low_submit" THEN "wait" ELSE "top") /\ UNCHANGED panic
    /\ UNCHANGED <<poolvars, libvars, inq, cclosed, tosend, closed, wop, ring, evmsgs, resq>>

RecvAllowed_open(cl, fl) == ~cl

\* ChanWorker::worker: whether the worker selects on the inbound channel
\* too, cl its local closed and fl the result of ctx.full()
RecvAllowed(cl, fl) == ~(cl \/ fl)

\* the worker receives from the inbound channel: a closure, or the error
\* that tells the channel is closed
worker_recv ==
    /\ pc = "wait"
    /\ RecvAllowed(closed, full)
    /\ IF inq # <<>>
       THEN /\ wop' = Head(inq)
            /\ inq' = Tail(inq)
            /\ pc' = "exec"
            /\ UNCHANGED closed
       ELSE /\ cclosed
            /\ closed' = TRUE
            /\ pc' = "close_submit"
            /\ UNCHANGED <<wop, inq>>
    /\ UNCHANGED <<rawvars, poolvars, libvars, cclosed, tosend, ring, evmsgs,
                   resq>>

\* the worker receives a counter read from the event-fd stream, in the
\* select or, the context full or the channel closed, waiting for it alone
worker_evfd ==
    /\ pc = "wait"
    /\ evmsgs > 0
    /\ evmsgs' = evmsgs - 1
    /\ pc' = IF pending = 0 THEN "top" ELSE "harvest"
    /\ UNCHANGED <<rawvars, poolvars, libvars, inq, cclosed, tosend, closed, wop, ring,
                   resq>>

\* the worker runs a queueing closure: the call on the context
worker_exec_queue ==
    /\ pc = "exec"
    /\ \/ wop.kind = "pread" /\ pread(BufOf.pread[1], wop.tok)
       \/ wop.kind = "pwrite" /\ pwrite(BufOf.pwrite[1], wop.tok)
       \/ wop.kind = "fsync" /\ fsync(wop.tok)

\* the worker runs the closure of flush: the call of Iocontext::submit
worker_exec_flush(r) ==
    /\ pc = "exec"
    /\ wop.kind = "flush"
    /\ submit(r)

\* the closure of flush: the match on what Iocontext::submit returned
FlushDone == Resume("top") /\ UNCHANGED panic

\* the closures, after the call on the context: sendhelper sends the
\* operation of a refused call back with EAGAIN, flush looks at nothing
worker_executed ==
    /\ pc = "exec"
    /\ call # Idle
    /\ panic = "none"
    /\ wop' = NoMsg
    /\ IF call.name = "submit"
       THEN FlushDone /\ UNCHANGED resq
       ELSE /\ Resume("top")
            /\ UNCHANGED panic
            /\ resq' = IF ret.tag = "Err"
                       THEN Append(resq, [res |-> [tag |-> "Err", n |-> EAGAIN],
                                          op |-> ret.op])
                       ELSE resq
    /\ UNCHANGED <<poolvars, libvars, inq, cclosed, tosend, closed, ring, evmsgs>>

\* ChanWorker::proc_results: results(1, max, None) returns once the kernel
\* has an event, with the events it has, at most max
worker_results ==
    /\ pc = "harvest"
    /\ ring # <<>>
    /\ results(maxops, Truncate(ring, maxops))

\* ChanWorker::proc_results: io_getevents is interrupted
worker_results_err(e) ==
    /\ pc = "harvest"
    /\ results_err(maxops, e)

\* ChanWorker::proc_results: the match on what results returned
worker_harvested ==
    /\ pc = "harvest"
    /\ call.name = "results"
    /\ panic = "none"
    /\ IF ret.tag = "Err"
       THEN Fatal("get results failed") /\ UNCHANGED <<ring, resq>>
       ELSE /\ Resume("top")
            /\ UNCHANGED panic
            /\ ring' = SubSeq(ring, Len(call.events) + 1, Len(ring))
            /\ resq' = resq \o [i \in DOMAIN ret.pairs |->
                                  [res |-> ret.pairs[i].res,
                                   op |-> ret.pairs[i].op]]
    /\ UNCHANGED <<poolvars, libvars, inq, cclosed, tosend, closed, wop, evmsgs>>

\* what the file of the channel client does to an operation: writes fail
\* with EIO, reads transfer 3 bytes and syncs succeed
ChanRes(opcode) ==
    IF opcode = IO_CMD_PWRITE THEN -5
    ELSE IF opcode \in {IO_CMD_FSYNC, IO_CMD_FDSYNC} THEN 0
    ELSE 3

\* the steps of the worker thread
Worker ==
    \/ worker_top
    \/ \E r \in -11..MaxOps : worker_submit(r)
    \/ worker_submitted
    \/ worker_recv
    \/ worker_evfd
    \/ worker_exec_queue
    \/ \E r \in -11..MaxOps : worker_exec_flush(r)
    \/ worker_executed
    \/ worker_results
    \/ \E e \in EventsErrnos : worker_results_err(e)
    \/ worker_harvested

\* the kernel completes an operation it accepted and signals the event-fd
Kernel ==
    \E x \in inflight, fresh \in BOOLEAN :
        complete(x, ChanRes(x.cb.aio_lio_opcode), fresh)

NextChan ==
    \/ \E m \in ChanMsgs : send(m)
    \/ drop_optx
    \/ Kernel
    \/ Worker

SpecChan == InitChan /\ [][NextChan]_vars

\* the worker thread runs whenever it can
SpecChanFair == SpecChan /\ WF_vars(Worker)

\* the steps of the worker thread in which no system call fails
WorkerRuns ==
    \/ worker_top
    \/ \E r \in 1..MaxOps : worker_submit(r)
    \/ worker_submitted
    \/ worker_recv
    \/ worker_evfd
    \/ worker_exec_queue
    \/ \E r \in 1..MaxOps : worker_exec_flush(r)
    \/ worker_executed
    \/ worker_results
    \/ worker_harvested

\* the worker thread runs whenever it can and the kernel eventually
\* completes every operation it accepted; no failure of a system call is
\* bound to happen
SpecChanLive == SpecChan /\ WF_vars(WorkerRuns) /\ WF_vars(Kernel)


(***************************************************************************)
(* future.rs: the future front-end.  Its caller owns the raw context       *)
(* above; every queueing call makes a single-shot channel, keeps the       *)
(* receiving end in the Future it returns and passes the sending end as    *)
(* the token of the operation.                                             *)
(***************************************************************************)
\* the caller takes what the call it made returned
FutResume ==
    /\ call' = Idle
    /\ ret' = NoRet
    /\ UNCHANGED <<iocb, iocbp, submitted, evfd, heap, inflight, owned,
                   order, queued>>

\* future::Iocontext::pread .. fdsync: the value of the Future made when
\* the raw call handed operation op back
FutValue(op) ==
    [res |-> [tag |-> "Err", n |-> EAGAIN],
     bufs |-> IF op.kind \in {"Fsync", "Fdsync"} THEN <<>> ELSE op.bufs]

\* future::Iocontext::pread .. fdsync: the call on the raw context, with
\* the token made of the sending end of a new channel
fut_call(t) ==
    /\ fpc = "idle"
    /\ t \in ftodo
    /\ \/ t \in TokOf.pread /\ pread(BufOf.pread[1], t)
       \/ t \in TokOf.pwrite /\ pwrite(BufOf.pwrite[1], t)
       \/ t \in TokOf.preadv /\ \E a \in IovAddrs : preadv(BufOf.preadv, t, a)
       \/ t \in TokOf.fsync /\ fsync(t)
       \/ t \in TokOf.fdsync /\ fdsync(t)

\* future::Iocontext::pread .. fdsync: the match on what the raw call
\* returned: Future::from_receiver, or Future::from_value with EAGAIN
fut_returned ==
    /\ fpc = "idle"
    /\ call.name \notin {"none", "submit", "results"}
    /\ panic = "none"
    /\ ftodo' = ftodo \ {call.op.tok}
    /\ futs' = [futs EXCEPT ![call.op.tok] =
                    IF ret.tag = "Err" THEN "value" ELSE "receiver"]
    /\ fval' = [fval EXCEPT ![call.op.tok] =
                    IF ret.tag = "Err" THEN FutValue(ret.op) ELSE @]
    /\ FutResume
    /\ UNCHANGED <<poolvars, chanvars, bufvars, diovars, ctxvars, timevars, fpc, fret, sent, panic>>

\* future::Iocontext::flush: the call of Iocontext::submit
flush_submit(r) ==
    /\ fpc = "idle"
    /\ submit(r)

\* future::Iocontext::flush: the match on what Iocontext::submit returned
flush_submitted ==
    /\ fpc = "idle"
    /\ call.name = "submit"
    /\ panic = "none"
    /\ IF ret.tag = "Err"
       THEN fret' = "Err" /\ UNCHANGED fpc
       ELSE fret' = "none" /\ fpc' = "loop"
    /\ FutResume
    /\ UNCHANGED <<poolvars, chanvars, bufvars, diovars, ctxvars, timevars,
                   ftodo, futs, fval, sent,
                   panic>>

FlushLoop_gt1(sub) == sub > 1

\* future::Iocontext::flush: the condition of the while loop
FlushLoop(sub) == sub > 0

\* future::Iocontext::flush: the test of the loop, and the return of Ok
flush_loop ==
    /\ fpc = "loop"
    /\ IF FlushLoop(submitted)
       THEN fpc' = "harvest" /\ UNCHANGED fret
       ELSE fpc' = "idle" /\ fret' = "Ok"
    /\ UNCHANGED <<rawvars, poolvars, chanvars, bufvars, diovars, ctxvars, timevars,
                   ftodo, futs, fval, sent>>

\* future::Iocontext::results: results(1, max, None) returns once the
\* kernel has an event, with the events evs
flush_results(evs) ==
    /\ fpc = "harvest"
    /\ evs # <<>>
    /\ results(maxops, evs)

\* future::Iocontext::results: io_getevents fails
flush_results_err(e) ==
    /\ fpc = "harvest"
    /\ results_err(maxops, e)

\* the message future::Iocontext::results sends for an operation: the
\* result and the buffers, the unit result alone for the syncs
FutMsg(op, res) ==
    IF op.kind \in {"Fsync", "Fdsync"}
    THEN [res |-> IF res.tag = "Ok" THEN [tag |-> "Ok", n |-> 0] ELSE res,
          bufs |-> <<>>]
    ELSE [res |-> res, bufs |-> op.bufs]

\* the sender an operation carries as its token
FutTx(op) == op.tok

FutKind_exact(op) == op.kind

\* future::Iocontext::results: the kind of sender token the match accepts
\* with operation op
FutKind(op) == IF op.kind = "Fdsync" THEN "Fsync" ELSE op.kind

\* future::Iocontext::results: the match on the operations returned, in
\* their order, S the messages sent so far
RECURSIVE Dispatch(_, _)
Dispatch(pairs, S) ==
    IF pairs = <<>> THEN [st |-> "Ok", sent |-> S]
    ELSE LET op == Head(pairs).op
             want == FutKind(op)
         IN  IF op.kind = "Noop" THEN Dispatch(Tail(pairs), S)
             ELSE IF IoFut[op.tok] # want THEN [st |-> "Panic", sent |-> S]
             ELSE Dispatch(Tail(pairs),
                           [S EXCEPT ![FutTx(op)] =
                               Append(@, FutMsg(op, Head(pairs).res))])

\* future::Iocontext::results: the match on what Iocontext::results returned
flush_dispatch ==
    /\ fpc = "harvest"
    /\ call.name = "results"
    /\ panic = "none"
    /\ LET d == Dispatch(ret.pairs, sent) IN
       IF ret.tag = "Err"
       THEN /\ panic' = "get results failed"
            /\ fpc' = "panicked"
            /\ UNCHANGED sent
       ELSE IF d.st = "Ok"
       THEN /\ sent' = d.sent
            /\ fpc' = "loop"
            /\ UNCHANGED panic
       ELSE /\ panic' = "badness"
            /\ fpc' = "panicked"
            /\ UNCHANGED sent
    /\ FutResume
    /\ UNCHANGED <<poolvars, chanvars, bufvars, diovars, ctxvars, timevars,
                   ftodo, fret, futs,
                   fval>>

NextFut ==
    \/ \E t \in FutCalls : fut_call(t)
    \/ fut_returned
    \/ \E r \in -11..MaxOps : flush_submit(r)
    \/ flush_submitted
    \/ flush_loop
    \/ \E evs \in EventSeqs(inflight, maxops) : flush_results(evs)
    \/ \E e \in EventsErrnos : flush_results_err(e)
    \/ flush_dispatch

SpecFut == Init /\ [][NextFut]_vars


(***************************************************************************)
(* aligned.rs: aligned buffers.  uint is WordBits wide and its arithmetic  *)
(* wraps; the bytes of a buffer are 0, a byte of data, or Uninit where     *)
(* nothing has been stored.                                                *)
(***************************************************************************)
WordBits == 8
Word == 2 ^ WordBits

Wrap(n) == n % Word

\* a & b
RECURSIVE BitAnd(_, _)
BitAnd(a, b) ==
    IF a = 0 \/ b = 0 THEN 0
    ELSE (a % 2) * (b % 2) + 2 * BitAnd(a \div 2, b \div 2)

\* !a
BitNot(a) == Word - 1 - a

Uninit == -1
Fill(n, v) == [i \in 1..n |-> v]

\* the sizes, alignments, slices and ranges the caller passes
Sizes == {0, 1, 10, 16, 17, 250}
Aligns == {0, 1, 4, 12, 16}
Slices == {Fill(n, 120) : n \in {0, 3, 16, 17}}
Bases == {0, 4, 16, 20}
Lens == {0, 4, 12, 16}

ispower2(n) == BitAnd(n, Wrap(n - 1)) = 0

AllocSize_nonot(size, align) ==
    BitAnd(Wrap(size + align - 1), Wrap(align - 1))

\* AlignedBuf::alloc_uninit: the size rounded up to the alignment
AllocSize(size, align) ==
    BitAnd(Wrap(size + align - 1), BitNot(Wrap(align - 1)))

\* AlignedBuf::extend_uninit and AlignedBuf::shrink: the size they compute
ExtSize(size, align) ==
    BitAnd(Wrap(size + align - 1), Wrap(align - 1))

BufRes(st, v, b) == [st |-> st, v |-> v, b |-> b]

\* AlignedBuf::alloc_uninit, heap::allocate succeeding or not (ok)
alloc_uninit(size, align, ok) ==
    LET sz == AllocSize(size, align) IN
    IF align = 0 \/ ~ispower2(align) THEN BufRes("Panic", 0, NoBuf)
    ELSE IF sz < size \/ sz % align # 0 THEN BufRes("Panic", 0, NoBuf)
    ELSE IF ~ok THEN BufRes("None", 0, NoBuf)
    ELSE BufRes("Some", 0,
                [st |-> "some", align |-> align, len |-> sz, valid |-> 0,
                 bytes |-> Fill(sz, Uninit)])

\* AlignedBuf::alloc
alloc(size, align, ok) ==
    LET r == alloc_uninit(size, align, ok) IN
    IF r.st # "Some" THEN r
    ELSE BufRes("Some", 0,
                [r.b EXCEPT !.bytes = Fill(r.b.len, 0), !.valid = r.b.len])

\* AlignedBuf::from_slice
from_slice(data, align, ok) ==
    LET r == alloc_uninit(Len(data), align, ok) IN
    IF r.st # "Some" THEN r
    ELSE BufRes("Some", 0,
                [r.b EXCEPT !.bytes = data \o Fill(r.b.len - Len(data), 0),
                            !.valid = r.b.len])

\* AlignedBuf::extend_uninit, realloc succeeding or not (ok)
extend_uninit(b, size, ok) ==
    LET sz == ExtSize(size, b.align) IN
    IF sz < b.len THEN BufRes("Panic", 0, b)
    ELSE IF sz = b.len THEN BufRes("Ok", 1, b)
    ELSE IF ~ok THEN BufRes("Ok", 0, b)
    ELSE BufRes("Ok", 1,
                [b EXCEPT !.len = sz,
                          !.bytes = b.bytes \o Fill(sz - b.len, Uninit)])

\* AlignedBuf::extend
extend(b, size, ok) ==
    LET r == extend_uninit(b, size, ok) IN
    IF r.st = "Ok" /\ r.v = 1 /\ r.b.len > b.len
    THEN BufRes("Ok", 1,
                [r.b EXCEPT !.bytes = b.bytes \o Fill(r.b.len - b.len, 0),
                            !.valid = r.b.len])
    ELSE r

\* AlignedBuf::shrink, realloc succeeding or not (ok)
shrink(b, size, ok) ==
    LET sz == ExtSize(size, b.align) IN
    IF sz > b.len THEN BufRes("Panic", 0, b)
    ELSE IF ~ok THEN BufRes("Ok", 0, b)
    ELSE BufRes("Ok", 1,
                [b EXCEPT !.len = sz, !.valid = sz,
                          !.bytes = SubSeq(b.bytes, 1, sz)])

CloneValid_src(b, nb) == b.valid

\* Clone for AlignedBuf: the length the copy of the valid portion is
\* decided by and made with
CloneValid(b, nb) == nb.valid

\* Clone for AlignedBuf, heap::allocate succeeding or not (ok)
clone(b, ok) ==
    LET r == alloc_uninit(b.len, b.align, ok) IN
    IF b.valid > b.len \/ r.st # "Some" THEN BufRes("Panic", 0, NoBuf)
    ELSE IF CloneValid(b, r.b) > 0
    THEN BufRes("Ok", 0,
                [r.b EXCEPT
                    !.bytes = SubSeq(b.bytes, 1, CloneValid(b, r.b))
                              \o SubSeq(r.b.bytes, CloneValid(b, r.b) + 1,
                                        r.b.len),
                    !.valid = b.valid])
    ELSE BufRes("Ok", 0, r.b)

\* RdBuf::rdbuf for AlignedBuf: the slice returned
rdbuf(b) ==
    IF b.valid > b.len THEN BufRes("Panic", 0, <<>>)
    ELSE BufRes("Ok", 0, SubSeq(b.bytes, 1, b.len))

RdUpdates_any(b, base, n) == Wrap(base + n) > b.valid

\* RdBuf::rdupdate for AlignedBuf: the test that decides whether the
\* valid length moves
RdUpdates(b, base, n) == base <= b.valid /\ Wrap(base + n) > b.valid

\* RdBuf::rdupdate for AlignedBuf
rdupdate(b, base, n) ==
    IF b.valid > b.len THEN BufRes("Panic", 0, b)
    ELSE IF RdUpdates(b, base, n)
    THEN IF Wrap(base + n) > b.len THEN BufRes("Panic", 0, b)
         ELSE BufRes("Ok", 0, [b EXCEPT !.valid = Wrap(base + n)])
    ELSE BufRes("Ok", 0, b)

\* WrBuf::wrbuf for AlignedBuf: the slice returned
wrbuf(b) ==
    IF b.valid > b.len THEN BufRes("Panic", 0, <<>>)
    ELSE BufRes("Ok", 0, SubSeq(b.bytes, 1, b.valid))

\* no call on a buffer has panicked
BufReady == aret.tag # "Panic"

ACall(name, a, b) == [name |-> name, a |-> a, b |-> b]
ARet(tag, v, view) == [tag |-> tag, v |-> v, view |-> view]

\* the caller, having no buffer, makes one with one of the three allocators
buf_new(name, r, a, b) ==
    /\ BufReady
    /\ abuf.st = "none"
    /\ acall' = ACall(name, a, b)
    /\ aret' = ARet(r.st, 0, <<>>)
    /\ abuf' = IF r.st = "Some" THEN r.b ELSE abuf
    /\ aclone' = NoBuf
    /\ UNCHANGED <<rawvars, poolvars, chanvars, futvars, diovars, ctxvars, timevars>>

buf_alloc_uninit(size, align, ok) ==
    buf_new("alloc_uninit", alloc_uninit(size, align, ok), size, align)

buf_alloc(size, align, ok) ==
    buf_new("alloc", alloc(size, align, ok), size, align)

buf_from_slice(data, align, ok) ==
    buf_new("from_slice", from_slice(data, align, ok), Len(data), align)

\* the caller calls extend_uninit, extend, shrink or rdupdate on its buffer
buf_update(name, r, a, b) ==
    /\ BufReady
    /\ abuf.st = "some"
    /\ acall' = ACall(name, a, b)
    /\ aret' = ARet(r.st, r.v, <<>>)
    /\ abuf' = r.b
    /\ UNCHANGED aclone
    /\ UNCHANGED <<rawvars, poolvars, chanvars, futvars, diovars, ctxvars, timevars>>

buf_extend_uninit(size, ok) ==
    buf_update("extend_uninit", extend_uninit(abuf, size, ok), size, 0)

buf_extend(size, ok) ==
    buf_update("extend", extend(abuf, size, ok), size, 0)

buf_shrink(size, ok) ==
    buf_update("shrink", shrink(abuf, size, ok), size, 0)

buf_rdupdate(base, n) ==
    buf_update("rdupdate", rdupdate(abuf, base, n), base, n)

\* the caller clones its buffer
buf_clone(ok) ==
    /\ BufReady
    /\ abuf.st = "some"
    /\ LET r == clone(abuf, ok) IN
       /\ acall' = ACall("clone", 0, 0)
       /\ aret' = ARet(r.st, 0, <<>>)
       /\ aclone' = r.b
    /\ UNCHANGED abuf
    /\ UNCHANGED <<rawvars, poolvars, chanvars, futvars, diovars, ctxvars, timevars>>

\* the caller takes the read-destination or the write-source view
buf_view(name, r) ==
    /\ BufReady
    /\ abuf.st = "some"
    /\ acall' = ACall(name, 0, 0)
    /\ aret' = ARet(r.st, 0, r.b)
    /\ UNCHANGED <<abuf, aclone>>
    /\ UNCHANGED <<rawvars, poolvars, chanvars, futvars, diovars, ctxvars, timevars>>

buf_rdbuf == buf_view("rdbuf", rdbuf(abuf))

buf_wrbuf == buf_view("wrbuf", wrbuf(abuf))

NextBuf ==
    \/ \E size \in Sizes, align \in Aligns, ok \in BOOLEAN :
            buf_alloc_uninit(size, align, ok)
    \/ \E size \in Sizes, align \in Aligns, ok \in BOOLEAN :
            buf_alloc(size, align, ok)
    \/ \E data \in Slices, align \in Aligns, ok \in BOOLEAN :
            buf_from_slice(data, align, ok)
    \/ \E size \in Sizes, ok \in BOOLEAN : buf_extend_uninit(size, ok)
    \/ \E size \in Sizes, ok \in BOOLEAN : buf_extend(size, ok)
    \/ \E size \in Sizes, ok \in BOOLEAN : buf_shrink(size, ok)
    \/ \E base \in Bases, n \in Lens : buf_rdupdate(base, n)
    \/ \E ok \in BOOLEAN : buf_clone(ok)
    \/ buf_rdbuf
    \/ buf_wrbuf

SpecBuf == Init /\ [][NextBuf]_vars


(***************************************************************************)
(* directio.rs: the direct-I/O file handle.  Each system call returns a    *)
(* value and, when that is -1, leaves an errno behind.                     *)
(***************************************************************************)
MaxIntr == 2                \* how often one call is interrupted at most
EINTR == 4                  \* the errno of io::ErrorKind::Interrupted
DioErrnos == {EINTR, 5}     \* the errnos a system call fails with: EINTR, EIO
DioFds == {3}               \* the descriptors open returns
DioOffs == {0, 4096}        \* the offsets the caller passes

\* retry: whether the loop returns the value n of the call, errno left at e
RetryReturns(n, e) == n # -1 \/ e # EINTR

DRet(tag, n) == [tag |-> tag, n |-> n]

\* DirectFile::open: one turn of the loop of retry around libc::open, which
\* returns n and leaves errno e, then the match on what retry returned
dio_open(n, e, alignment) ==
    /\ dfile.st = "none"
    /\ dcall' = [name |-> "open", off |-> 0]
    /\ IF RetryReturns(n, e)
       THEN /\ dret' = IF n = -1 THEN DRet("Err", e) ELSE DRet("Ok", n)
            /\ dfile' = IF n = -1 THEN dfile
                        ELSE [st |-> "open", fd |-> n, alignment |-> alignment]
            /\ dtry' = IF dret.tag = "Pending" THEN dtry ELSE 0
       ELSE /\ (IF dret.tag = "Pending" THEN dtry ELSE 0) < MaxIntr
            /\ dret' = DRet("Pending", 0)
            /\ dtry' = IF dret.tag = "Pending" THEN dtry + 1 ELSE 1
            /\ UNCHANGED dfile
    /\ UNCHANGED <<rawvars, poolvars, chanvars, futvars, bufvars, ctxvars, timevars>>

\* the io::Result made from the return value r of pread or pwrite
DioResult(r, e) == IF r < 0 THEN DRet("Err", e) ELSE DRet("Ok", r)

\* DirectFile::pread: libc::pread stores r bytes in the buffer, or fails
\* with errno e
dio_pread(off, r, e) ==
    /\ dfile.st = "open"
    /\ abuf.st = "some"
    /\ BufReady
    /\ r <= abuf.len
    /\ dcall' = [name |-> "pread", off |-> off]
    /\ dret' = DioResult(r, e)
    /\ dtry' = IF r = -1 /\ e = EINTR THEN 1 ELSE 0
    /\ abuf' = IF r <= 0 THEN abuf
               ELSE [abuf EXCEPT !.bytes = Fill(r, 120)
                                           \o SubSeq(abuf.bytes, r + 1, abuf.len)]
    /\ UNCHANGED <<dfile, aclone, acall, aret>>
    /\ UNCHANGED <<rawvars, poolvars, chanvars, futvars, ctxvars, timevars>>

\* DirectFile::pwrite: libc::pwrite writes r of the buf.len() bytes, or
\* fails with errno e
dio_pwrite(off, r, e) ==
    /\ dfile.st = "open"
    /\ abuf.st = "some"
    /\ BufReady
    /\ r <= abuf.len
    /\ dcall' = [name |-> "pwrite", off |-> off]
    /\ dret' = DioResult(r, e)
    /\ dtry' = IF r = -1 /\ e = EINTR THEN 1 ELSE 0
    /\ UNCHANGED <<dfile, bufvars>>
    /\ UNCHANGED <<rawvars, poolvars, chanvars, futvars, ctxvars, timevars>>

NextDio ==
    \/ \E data \in Slices, align \in Aligns, ok \in BOOLEAN :
            buf_from_slice(data, align, ok)
    \/ \E size \in Sizes, align \in Aligns, ok \in BOOLEAN :
            buf_alloc_uninit(size, align, ok)
    \/ \E n \in DioFds \cup {-1}, e \in DioErrnos, a \in Aligns \ {0} :
            dio_open(n, e, a)
    \/ \E off \in DioOffs, r \in {-1, 0, 3, 16}, e \in DioErrnos :
            dio_pread(off, r, e)
    \/ \E off \in DioOffs, r \in {-1, 0, 3, 16}, e \in DioErrnos :
            dio_pwrite(off, r, e)

SpecDio == Init /\ [][NextDio]_vars

(***************************************************************************)
(* raw.rs: the life of the kernel context.  Iocontext::new makes the       *)
(* owner Iocontextwrap with a null handle, then asks the kernel for a      *)
(* context; the owner, when dropped, calls io_destroy on its handle.       *)
(***************************************************************************)
KernelCtx == 700            \* the handle io_queue_init stores on success
NullCtx == 0                \* ptr::null_mut()
NewErrnos == {11, 12}       \* io_queue_init failure: EAGAIN, ENOMEM
DestroyErrnos == {22}       \* io_destroy failure: EINVAL

\* before Iocontext::new: the state new builds for the context, the kernel
\* not yet asked
InitCtx ==
    /\ iocb = PoolNew(maxops)
    /\ iocbp = <<>>
    /\ submitted = 0
    /\ evfd = 0
    /\ heap = {BufAddr(b) : b \in Bufs}
    /\ inflight = {}
    /\ owned = Bufs
    /\ order = <<>>
    /\ queued = [a \in IocbAddrs |-> Noop]
    /\ call = Idle
    /\ ret = NoRet
    /\ panic = "none"
    /\ tpool = PoolNew(PoolSize)
    /\ pcall = [name |-> "new", arg |-> PoolSize]
    /\ pret = [tag |-> "Ok", v |-> 0]
    /\ refill = [stage |-> "fill", n |-> 0]
    /\ inq = <<>>
    /\ cclosed = FALSE
    /\ tosend = {}
    /\ closed = FALSE
    /\ pc = "top"
    /\ wop = NoMsg
    /\ ring = <<>>
    /\ evmsgs = 0
    /\ resq = <<>>
    /\ ftodo = FutCalls
    /\ fpc = "idle"
    /\ fret = "none"
    /\ futs = [t \in FutCalls |-> "none"]
    /\ sent = [t \in FutCalls |-> <<>>]
    /\ fval = [t \in FutCalls |-> NoVal]
    /\ abuf = NoBuf
    /\ aclone = NoBuf
    /\ acall = [name |-> "none", a |-> 0, b |-> 0]
    /\ aret = [tag |-> "None", v |-> 0, view |-> <<>>]
    /\ dfile = NoFile
    /\ dcall = [name |-> "none", off |-> 0]
    /\ dtry = 0
    /\ dret = [tag |-> "None", n |-> 0]
    /\ cst = "none"
    /\ cerr = 0
    /\ destroys = <<>>
    /\ tmo = NoDuration
    /\ tsarg = NoTimespec

\* Iocontext::new: the code of the io::Error made of the value e that
\* io_queue_init returned
NewError(e) == e

\* io_destroy(ctx) returns d: 0 for the handle of a context, a negative
\* errno for a handle that names none
io_destroy(ctx, d) ==
    IF ctx = KernelCtx THEN d = 0 ELSE -d \in DestroyErrnos

\* Drop for Iocontextwrap holding handle ctx, io_destroy returning d
DropWrap(ctx, d) ==
    /\ io_destroy(ctx, d)
    /\ destroys' = Append(destroys, [ctx |-> ctx, ret |-> d])
    /\ panic' = IF d < 0 THEN "io_destroy failed" ELSE panic

\* Iocontext::new, io_queue_init returning e: on failure the Err is made
\* and the local r, with it the Iocontextwrap of the null handle, is
\* dropped as new returns, io_destroy returning d
ctx_new(e, d) ==
    /\ cst = "none"
    /\ e = 0 \/ -e \in NewErrnos
    /\ IF e < 0
       THEN /\ DropWrap(NullCtx, d)
            /\ cerr' = NewError(e)
            /\ cst' = IF panic' # "none" THEN "panicked" ELSE "err"
       ELSE /\ cst' = "live"
            /\ UNCHANGED <<cerr, destroys, panic>>
    /\ UNCHANGED <<iocb, iocbp, submitted, evfd, heap, inflight, owned,
                   order, queued, call, ret>>
    /\ UNCHANGED <<poolvars, chanvars, futvars, bufvars, diovars, timevars>>

\* the owner drops its Iocontext
ctx_drop ==
    /\ cst = "live"
    /\ DropWrap(KernelCtx, 0)
    /\ cst' = "dropped"
    /\ UNCHANGED cerr
    /\ UNCHANGED <<iocb, iocbp, submitted, evfd, heap, inflight, owned,
                   order, queued, call, ret>>
    /\ UNCHANGED <<poolvars, chanvars, futvars, bufvars, diovars, timevars>>

NextCtx ==
    \/ \E e \in {0} \cup {-n : n \in NewErrnos},
          d \in {-n : n \in DestroyErrnos} : ctx_new(e, d)
    \/ ctx_drop
    \/ cst = "live" /\ Next

SpecCtx == InitCtx /\ [][NextCtx]_vars

(***************************************************************************)
(* raw.rs: the timeout of results.  A chrono Duration holds whole seconds  *)
(* and the nanoseconds of the second begun; num_nanoseconds gives the      *)
(* whole duration in nanoseconds as an i64, None when it does not fit.     *)
(* The model gives that i64 TimeBits bits.                                 *)
(***************************************************************************)
NanosPerSec == 1000000000
TimeBits == 32
I64Max == (2^(TimeBits - 2) - 1) + 2^(TimeBits - 2)

\* the timeouts the caller passes
TimeSecs == {-2, -1, 0, 1, 2, 3, 4}
TimeNanos == {0, 1, 147483647, 147483648, 500000000, 647483647,
              999999998, 999999999}
Timeouts ==
    {NoDuration} \cup {SomeDuration(sec, ns) : sec \in TimeSecs, ns \in TimeNanos}

\* the caller about to call results with one of the timeouts
InitTime ==
    /\ iocb = PoolNew(maxops)
    /\ iocbp = <<>>
    /\ submitted = 0
    /\ evfd = 0
    /\ heap = {BufAddr(b) : b \in Bufs}
    /\ inflight = {}
    /\ owned = Bufs
    /\ order = <<>>
    /\ queued = [a \in IocbAddrs |-> Noop]
    /\ call = Idle
    /\ ret = NoRet
    /\ panic = "none"
    /\ tpool = PoolNew(PoolSize)
    /\ pcall = [name |-> "new", arg |-> PoolSize]
    /\ pret = [tag |-> "Ok", v |-> 0]
    /\ refill = [stage |-> "fill", n |-> 0]
    /\ inq = <<>>
    /\ cclosed = FALSE
    /\ tosend = {}
    /\ closed = FALSE
    /\ pc = "top"
    /\ wop = NoMsg
    /\ ring = <<>>
    /\ evmsgs = 0
    /\ resq = <<>>
    /\ ftodo = FutCalls
    /\ fpc = "idle"
    /\ fret = "none"
    /\ futs = [t \in FutCalls |-> "none"]
    /\ sent = [t \in FutCalls |-> <<>>]
    /\ fval = [t \in FutCalls |-> NoVal]
    /\ abuf = NoBuf
    /\ aclone = NoBuf
    /\ acall = [name |-> "none", a |-> 0, b |-> 0]
    /\ aret = [tag |-> "None", v |-> 0, view |-> <<>>]
    /\ dfile = NoFile
    /\ dcall = [name |-> "none", off |-> 0]
    /\ dtry = 0
    /\ dret = [tag |-> "None", n |-> 0]
    /\ cst = "live"
    /\ cerr = 0
    /\ destroys = <<>>
    /\ tmo \in Timeouts
    /\ tsarg = NoTimespec

\* Duration::zero()
DurationZero == SomeDuration(0, 0)

\* std::cmp::max of two durations, ordered by seconds, then nanoseconds
DurationMax(a, b) ==
    IF b.secs > a.secs \/ (b.secs = a.secs /\ b.nanos >= a.nanos) THEN b ELSE a

\* Duration::num_seconds: whole seconds, rounded towards zero
num_seconds(d) == IF d.secs < 0 /\ d.nanos > 0 THEN d.secs + 1 ELSE d.secs

\* Option<i64>::None
NoI64 == [tag |-> "None", v |-> 0]

\* i64::checked_mul, of numbers >= 0
checked_mul(a, b) ==
    IF a > I64Max \div b THEN NoI64 ELSE [tag |-> "Some", v |-> a * b]

\* i64::checked_add, of numbers >= 0
checked_add(a, b) ==
    IF a > I64Max - b THEN NoI64 ELSE [tag |-> "Some", v |-> a + b]

\* Duration::num_nanoseconds of a duration >= 0
num_nanoseconds(d) ==
    LET secs_part == checked_mul(num_seconds(d), NanosPerSec) IN
    IF secs_part.tag = "None" THEN NoI64
    ELSE checked_add(secs_part.v, d.nanos)

\* timespec_from_duration: unwrap panics on None
timespec_from_duration(dur) ==
    LET d == DurationMax(DurationZero, dur)
        n == num_nanoseconds(d)
    IN  IF n.tag = "None"
        THEN [st |-> "Panic", tv_sec |-> 0, tv_nsec |-> 0]
        ELSE [st |-> "Ok", tv_sec |-> num_seconds(d),
              tv_nsec |-> n.v % NanosPerSec]

\* Iocontext::results: the timeout argument of io_getevents,
\* as_mut_ptr(timeout.map(timespec_from_duration).as_mut())
TimeoutArg(t) ==
    IF t.tag = "None" THEN [st |-> "Null", tv_sec |-> 0, tv_nsec |-> 0]
    ELSE timespec_from_duration(t)

\* Iocontext::results(min, max, tmo) up to its call of io_getevents
time_results ==
    /\ tsarg = NoTimespec
    /\ tsarg' = TimeoutArg(tmo)
    /\ UNCHANGED <<rawvars, poolvars, chanvars, futvars, bufvars, diovars,
                   ctxvars, tmo>>

NextTime == time_results

SpecTime == InitTime /\ [][NextTime]_vars


(***************************************************************************)
(* Properties of the raw I/O context.                                      *)
(***************************************************************************)
QueueNames == {"pread", "preadv", "pwrite", "pwritev", "fsync", "fdsync"}

\* the slot whose storage holds address a, -1 if none does
InSlot(a, i) == PoolBase + i * SlotSize <= a /\ a < PoolBase + (i + 1) * SlotSize
SlotOf(a) ==
    IF \E i \in 0..(MaxOps - 1) : InSlot(a, i)
    THEN CHOOSE i \in 0..(MaxOps - 1) : InSlot(a, i)
    ELSE -1

\* C1: a queueing call made while batched + submitted >= maxops returns Err
\* carrying exactly the buffers and token passed in, and leaves batched,
\* submitted, the pending vector, every pool slot and the caller's
\* ownership of its buffers unchanged.
C1_FullQueueHandsBack ==
    [][(call'.name \in QueueNames /\ Len(iocbp) + submitted >= MaxOps) =>
          /\ ret'.tag = "Err"
          /\ ret'.op = call'.op
          /\ iocbp' = iocbp
          /\ submitted' = submitted
          /\ iocb' = iocb
          /\ owned' = owned
          /\ panic' = "none"]_vars

\* a vector write was refused by a context that is full with both batched
\* and submitted operations
C1_Witness ==
    /\ call.name = "pwritev"
    /\ ret.tag = "Err"
    /\ Len(ret.op.bufs) = 2
    /\ Len(iocbp) > 0
    /\ submitted > 0
    /\ Len(iocbp) + submitted >= MaxOps

\* C2: a queueing call made while batched + submitted < maxops returns
\* Ok(()), increases batched by one, leaves submitted unchanged and does not
\* panic.
C2_NotFullQueueSucceeds ==
    [][(call'.name \in QueueNames /\ Len(iocbp) + submitted < MaxOps) =>
          /\ ret'.tag = "Ok"
          /\ Len(iocbp') = Len(iocbp) + 1
          /\ submitted' = submitted
          /\ panic' = "none"]_vars

\* C3: batched + submitted <= maxops in every reachable state, with
\* pending = batched + submitted and full exactly when pending >= maxops.
C3_PendingWithinMaxops ==
    /\ Len(iocbp) + submitted <= MaxOps
    /\ submitted >= 0
    /\ pending = Len(iocbp) + submitted
    /\ full <=> (Len(iocbp) + submitted >= MaxOps)

\* the context is full after a partial submit
C3_Witness ==
    /\ call.name = "submit"
    /\ ret.tag = "Ok"
    /\ submitted > 0
    /\ Len(iocbp) > 0
    /\ Len(iocbp) + submitted = MaxOps

\* C4: the memory the buffer field of every live control block points to
\* (the buffer bytes of a scalar transfer, the iovec array of a vector
\* transfer) is allocated until results frees the slot.
C4_BuffersStayAllocated ==
    \A i \in DOMAIN iocb.pool :
        (/\ iocb.pool[i].tag = "Alloc"
         /\ iocb.pool[i].v.iocb.aio_lio_opcode \in
               {IO_CMD_PREAD, IO_CMD_PWRITE, IO_CMD_PREADV, IO_CMD_PWRITEV})
        => iocb.pool[i].v.iocb.aio_buf \in heap

\* C5: every operation results returns is the one that was queued for the
\* control block of its event, with the same variant, buffers and token,
\* whatever the order of the events.
C5_CompletionReturnsQueuedOp ==
    [][(call'.name = "results" /\ ret'.tag = "Ok") =>
          /\ Len(ret'.pairs) = Len(call'.events)
          /\ \A i \in DOMAIN ret'.pairs :
                /\ ret'.pairs[i].op.kind # "Noop"
                /\ ret'.pairs[i].op = queued[call'.events[i].obj]]_vars

\* two different operations were harvested in one call, the one queued
\* last (in the lower slot) completing first
C5_Witness ==
    /\ call.name = "results"
    /\ ret.tag = "Ok"
    /\ Len(ret.pairs) = 2
    /\ call.events[1].obj < call.events[2].obj
    /\ ret.pairs[1].op # ret.pairs[2].op

\* C6: when the kernel accepts k of the n pending control blocks, submit
\* removes exactly the first k from the pending vector, keeps the others
\* in order, adds k to submitted, leaves pending unchanged and returns
\* Ok(k); with n = 0 it returns Ok(0) without entering the kernel and
\* changes nothing.
C6_SubmitRemovesAccepted ==
    [][call'.name = "submit" =>
          IF Len(iocbp) = 0
          THEN /\ ret'.tag = "Ok"
               /\ ret'.n = 0
               /\ ~call'.syscall
               /\ UNCHANGED <<iocb, iocbp, submitted, evfd, heap, inflight,
                              owned, order, queued, panic>>
          ELSE /\ call'.syscall
               /\ call'.kret >= 0 =>
                     /\ call'.kret <= Len(iocbp)
                     /\ iocbp' = SubSeq(iocbp, call'.kret + 1, Len(iocbp))
                     /\ submitted' = submitted + call'.kret
                     /\ Len(iocbp') = Len(iocbp) - call'.kret
                     /\ Len(iocbp') + submitted' = Len(iocbp) + submitted
                     /\ ret'.tag = "Ok"
                     /\ ret'.n = call'.kret]_vars

\* the kernel accepted one of two pending control blocks
C6_Witness ==
    /\ call.name = "submit"
    /\ call.syscall
    /\ ret.tag = "Ok"
    /\ ret.n = 1
    /\ Len(iocbp) = 1
    /\ submitted = 1

\* C7: when io_submit returns a negative value, submit returns Err with
\* the negated value as the error number and leaves the pending vector,
\* batched, submitted and the pool as they were.
C7_SubmitErrorKeepsBatch ==
    [][(call'.name = "submit" /\ call'.kret < 0) =>
          /\ ret'.tag = "Err"
          /\ ret'.n = 0 - call'.kret
          /\ ret'.n > 0
          /\ iocbp' = iocbp
          /\ submitted' = submitted
          /\ iocb' = iocb
          /\ inflight' = inflight]_vars

\* io_submit failed with EAGAIN on a batch of two
C7_Witness ==
    /\ call.name = "submit"
    /\ call.kret = -11
    /\ ret.tag = "Err"
    /\ Len(iocbp) = 2

\* C8: when the kernel reports r events (0 <= r <= max), results returns
\* r pairs in the order of the events, frees exactly the r slots their
\* data fields name, takes r off submitted and leaves batched and the
\* pending vector unchanged.
C8_ResultsHarvestsEvents ==
    [][(call'.name = "results" /\ call'.kret >= 0) =>
          /\ call'.kret = Len(call'.events)
          /\ call'.kret <= call'.max
          /\ ret'.tag = "Ok"
          /\ ret'.n = call'.kret
          /\ Len(ret'.pairs) = call'.kret
          /\ \A i \in DOMAIN call'.events :
                LET s == SlotOf(call'.events[i].data) IN
                /\ s \in DOMAIN iocb.pool
                /\ iocb.pool[s].tag = "Alloc"
                /\ ret'.pairs[i].op = iocb.pool[s].v.op
                /\ iocb'.pool[s].tag = "Free"
          /\ \A s \in DOMAIN iocb.pool :
                (\A i \in DOMAIN call'.events :
                    s # SlotOf(call'.events[i].data))
                => iocb'.pool[s] = iocb.pool[s]
          /\ iocb'.used = iocb.used - call'.kret
          /\ submitted' = submitted - call'.kret
          /\ iocbp' = iocbp]_vars

\* one call harvested two events and left the pool empty
C8_Witness ==
    /\ call.name = "results"
    /\ call.kret = 2
    /\ ret.tag = "Ok"
    /\ Len(ret.pairs) = 2
    /\ iocb.used = 0

\* C9: an event with res >= 0 yields Ok(res), an event with res < 0 yields
\* Err with error number -res, and either way the pair carries the
\* operation queued for the event's control block and its buffers are back
\* with the caller.
C9_EventResultAndResources ==
    [][(call'.name = "results" /\ ret'.tag = "Ok") =>
          /\ Len(ret'.pairs) = Len(call'.events)
          /\ \A i \in DOMAIN call'.events :
                LET ev == call'.events[i]
                    p == ret'.pairs[i]
                IN  /\ ev.res >= 0 => p.res = [tag |-> "Ok", n |-> ev.res]
                    /\ ev.res < 0 => p.res = [tag |-> "Err", n |-> 0 - ev.res]
                    /\ p.op = queued[ev.obj]
                    /\ Range(p.op.bufs) \cap owned = {}
                    /\ Range(p.op.bufs) \subseteq owned']_vars

\* a failed vector read came back with its two buffers next to a sync that
\* completed with 0
C9_Witness ==
    /\ call.name = "results"
    /\ ret.tag = "Ok"
    /\ \E i, j \in DOMAIN ret.pairs :
          /\ ret.pairs[i].res.tag = "Err"
          /\ Len(ret.pairs[i].op.bufs) = 2
          /\ ret.pairs[j].res = [tag |-> "Ok", n |-> 0]

\* C10: every pointer in the pending vector is the address of the control
\* block of a currently allocated slot, and no slot results frees has its
\* pointer in the pending vector.
C10_PendingPointersLive ==
    /\ \A j \in DOMAIN iocbp :
          \E i \in DOMAIN iocb.pool :
             /\ iocbp[j] = PoolBase + i * SlotSize + PayloadOff + IocbOff
             /\ iocb.pool[i].tag = "Alloc"
    /\ call.name = "results" =>
          \A i \in DOMAIN call.events :
             \A j \in DOMAIN iocbp :
                SlotOf(call.events[i].data) # SlotOf(iocbp[j])

\* a completion was harvested while another control block was pending
C10_Witness ==
    /\ call.name = "results"
    /\ Len(call.events) >= 1
    /\ Len(iocbp) >= 1

\* C11: the pending vector always lists the operations queued and not yet
\* accepted by the kernel in the order they were queued, also after partial
\* submits and after harvests that free and reuse slots; one submit hands
\* the kernel the control blocks from the front of that order, so what a
\* partial submit leaves precedes everything queued later.
C11_PendingVectorFifo ==
    [][/\ iocbp' = order'
       /\ (call'.name \in QueueNames /\ ret'.tag = "Ok") =>
             /\ Len(iocbp') = Len(iocbp) + 1
             /\ SubSeq(iocbp', 1, Len(iocbp)) = iocbp
       /\ (call'.name = "submit" /\ call'.kret >= 0) =>
             /\ {x.obj : x \in inflight' \ inflight} =
                   {order[i] : i \in 1..call'.kret}
             /\ order' = SubSeq(order, call'.kret + 1, Len(order))]_vars

\* a partial submit accepted the operation left over by an earlier partial
\* submit and left behind the one queued after it, which lives in the slot
\* a harvest had freed in between
C11_Witness ==
    /\ call.name = "submit"
    /\ call.kret = 1
    /\ Len(iocbp) = 1
    /\ \E x \in inflight : x.obj < iocbp[1]

\* C12: get_evfd_stream makes an event-fd only when the context has none
\* and afterwards keeps the one it has; a control block is queued with
\* flags = RESFD and resfd = the descriptor when the context has an
\* event-fd and with flags = 0 and resfd = 0 when it has none, it keeps
\* these values for as long as its slot is allocated, and the kernel is
\* handed it with them.
C12_EvfdLazyAndEncoded ==
    [][/\ call'.name = "get_evfd_stream" =>
             IF evfd # 0
             THEN evfd' = evfd /\ ~call'.syscall /\ ret'.tag = "Ok"
             ELSE /\ call'.syscall
                  /\ ret'.tag = "Ok" => evfd' # 0
                  /\ ret'.tag = "Err" => evfd' = 0
       /\ call'.name # "get_evfd_stream" => evfd' = evfd
       /\ (call'.name \in QueueNames /\ ret'.tag = "Ok") =>
             LET cb == iocb'.pool[SlotOf(iocbp'[Len(iocbp')])].v.iocb IN
             /\ cb.aio_flags = (IF evfd # 0 THEN 1 ELSE 0)
             /\ cb.aio_resfd = evfd
       /\ \A i \in DOMAIN iocb.pool :
             (iocb.pool[i].tag = "Alloc" /\ iocb'.pool[i].tag = "Alloc") =>
                /\ iocb'.pool[i].v.iocb.aio_flags = iocb.pool[i].v.iocb.aio_flags
                /\ iocb'.pool[i].v.iocb.aio_resfd = iocb.pool[i].v.iocb.aio_resfd
       /\ \A x \in inflight' \ inflight :
             /\ x.cb.aio_flags = iocb.pool[SlotOf(x.obj)].v.iocb.aio_flags
             /\ x.cb.aio_resfd = iocb.pool[SlotOf(x.obj)].v.iocb.aio_resfd]_vars

\* one submit handed the kernel a control block queued before the
\* event-fd existed and one queued after
C12_Witness ==
    /\ call.name = "submit"
    /\ call.kret = 2
    /\ evfd # 0
    /\ \E x, y \in inflight :
          /\ x.cb.aio_flags = 0 /\ x.cb.aio_resfd = 0
          /\ y.cb.aio_flags = 1 /\ y.cb.aio_resfd = evfd

(***************************************************************************)
(* Properties of the pool.                                                 *)
(***************************************************************************)
PoolIdx == 0..(PoolSize - 1)

\* the slot of the pool under test whose storage holds address a, else -1
PoolSlotOf(a) ==
    IF \E i \in PoolIdx : InSlot(a, i)
    THEN CHOOSE i \in PoolIdx : InSlot(a, i)
    ELSE -1

\* the slot a freeidx or freeptr call with argument arg is aimed at
FreeTarget(name, arg) == IF name = "freeptr" THEN PoolSlotOf(arg) ELSE arg

\* the slots on the free list from i on, and whether the walk reached -1
\* through Free slots without meeting a slot twice
RECURSIVE FreeWalk(_, _, _)
FreeWalk(P, i, path) ==
    IF i = -1 THEN [ok |-> TRUE, path |-> path]
    ELSE IF i \notin DOMAIN P.pool \/ i \in Range(path)
            \/ P.pool[i].tag # "Free"
    THEN [ok |-> FALSE, path |-> path]
    ELSE FreeWalk(P, P.pool[i].next, Append(path, i))

\* C13: allocidx(v) on a pool whose slots are all allocated returns Err(v)
\* and leaves the pool as it was; on a pool with a free slot it returns
\* Ok(index) with index < limit, used one higher and pool[index] = v.
C13_AllocidxErrOnlyWhenFull ==
    [][pcall'.name = "allocidx" =>
          IF \A i \in PoolIdx : tpool.pool[i].tag = "Alloc"
          THEN /\ tpool.used = PoolSize
               /\ pret' = PRet("Err", pcall'.arg)
               /\ tpool' = tpool
          ELSE /\ pret'.tag = "Ok"
               /\ pret'.v \in PoolIdx
               /\ tpool'.used = tpool.used + 1
               /\ tpool'.pool[pret'.v] = Alloc(pcall'.arg)]_vars

\* C14: as long as no call has panicked, the free list from the freelist
\* head is acyclic, ends with -1, visits every Free slot exactly once and
\* no Alloc slot, and used plus its length is the capacity.
C14_FreeListWellFormed ==
    pret.tag # "Panic" =>
        LET w == FreeWalk(tpool, tpool.freelist, <<>>) IN
        /\ w.ok
        /\ Range(w.path) = {i \in PoolIdx : tpool.pool[i].tag = "Free"}
        /\ tpool.used + Len(w.path) = PoolSize

\* C15: after PoolSize allocations and then PoolSize frees in any order,
\* each of the next PoolSize allocidx calls returns Ok with a slot that
\* is not allocated, and the one after them returns Err.
C15_RefillSameCapacity ==
    [][(pcall'.name = "allocidx" /\ refill.stage = "refill") =>
          IF refill.n < PoolSize
          THEN /\ pret'.tag = "Ok"
               /\ pret'.v \in PoolIdx
               /\ tpool.pool[pret'.v].tag = "Free"
          ELSE pret'.tag = "Err"]_vars

\* C16: freeidx(i) on an allocated slot i, and freeptr(ptr) with ptr
\* anywhere in the storage of an allocated slot i, returns the payload of
\* slot i, takes one off used (adds one to avail) and makes slot i Free;
\* an allocidx that follows it returns i.
C16_FreeReturnsPayloadAndSlotIsReused ==
    [][/\ LET i == FreeTarget(pcall'.name, pcall'.arg) IN
          (/\ pcall'.name \in {"freeidx", "freeptr"}
           /\ i \in PoolIdx
           /\ tpool.pool[i].tag = "Alloc") =>
             /\ pret' = PRet("Ok", tpool.pool[i].v)
             /\ used(tpool') = used(tpool) - 1
             /\ avail(tpool') = avail(tpool) + 1
             /\ tpool'.pool[i].tag = "Free"
       /\ (/\ pcall.name \in {"freeidx", "freeptr"}
           /\ pret.tag = "Ok"
           /\ pcall'.name = "allocidx") =>
             pret' = PRet("Ok", FreeTarget(pcall.name, pcall.arg))]_vars

\* freeptr got a pointer to the last byte of an allocated slot and
\* returned its payload
C16_Witness ==
    /\ pcall.name = "freeptr"
    /\ pcall.arg = PoolBase + PoolSlotOf(pcall.arg) * SlotSize + SlotSize - 1
    /\ pret = PRet("Ok", 12)
    /\ tpool.freelist = PoolSlotOf(pcall.arg)

\* C17: freeidx on an index >= limit or on a Free slot, reading or writing
\* through an index that is out of range or names a Free slot, and freeptr
\* with a pointer below the pool's base or past its last slot, all panic
\* and return nothing.
C17_MisusePanics ==
    [][/\ (/\ pcall'.name = "freeidx"
           /\ \/ pcall'.arg >= PoolSize
              \/ tpool.pool[pcall'.arg].tag = "Free") =>
             pret'.tag = "Panic"
       /\ (/\ pcall'.name \in {"index", "index_mut"}
           /\ \/ pcall'.arg \notin PoolIdx
              \/ tpool.pool[pcall'.arg].tag = "Free") =>
             pret'.tag = "Panic"
       /\ (/\ pcall'.name = "freeptr"
           /\ \/ pcall'.arg < PoolBase
              \/ pcall'.arg >= PoolBase + PoolSize * SlotSize) =>
             pret'.tag = "Panic"]_vars

\* freeidx panicked on a Free slot of a pool that holds a payload
C17_Witness ==
    /\ pcall.name = "freeidx"
    /\ pcall.arg \in PoolIdx
    /\ pret.tag = "Panic"
    /\ \E i \in PoolIdx : tpool.pool[i].tag = "Alloc"

\* C18: the storage keeps the length passed to new, and the payload of an
\* allocated slot stays in that slot unchanged through every allocidx,
\* freeidx and freeptr call that does not free that very slot.
C18_StorageStable ==
    [][/\ DOMAIN tpool'.pool = PoolIdx
       /\ PoolLen(tpool') = PoolSize
       /\ \A i \in PoolIdx :
             (/\ tpool.pool[i].tag = "Alloc"
              /\ pcall'.name \in {"allocidx", "freeidx", "freeptr"}
              /\ ~(/\ pcall'.name \in {"freeidx", "freeptr"}
                   /\ FreeTarget(pcall'.name, pcall'.arg) = i)) =>
                tpool'.pool[i] = tpool.pool[i]]_vars

\* an allocation reused a freed slot next to a slot that has kept another
\* payload since the pool was filled
C18_Witness ==
    /\ pcall.name = "allocidx"
    /\ pret.tag = "Ok"
    /\ refill.stage = "off"
    /\ tpool.used = PoolSize
    /\ \E i \in PoolIdx : i # pret.v /\ tpool.pool[i].v # pcall.arg

(***************************************************************************)
(* Properties of the channel front-end.                                    *)
(***************************************************************************)
\* C19: the worker leaves its loop only from the loop test, in a state
\* where it has seen the inbound channel closed and nothing is batched or
\* submitted; from such a state the loop test leads nowhere else, and the
\* worker, running whenever it can, does leave.
C19_WorkerExitsWhenDrained ==
    /\ [][/\ (pc' = "done" /\ pc # "done") =>
                /\ pc = "top"
                /\ closed
                /\ Len(iocbp) + submitted = 0
                /\ Len(iocbp') + submitted' = 0
          /\ (pc = "top" /\ closed /\ Len(iocbp) + submitted = 0
                /\ pc' # pc) => pc' = "done"]_vars
    /\ (closed /\ Len(iocbp) + submitted = 0 /\ panic = "none")
           ~> (pc = "done")

\* the worker left its loop after it had sent two results
C19_Witness ==
    /\ pc = "done"
    /\ closed
    /\ Len(resq) >= 2
    /\ Len(iocbp) + submitted = 0

\* C20: whenever a submit or results call made by the worker on its
\* context has returned an error, the worker panics, whichever path made
\* the call.
C20_SubmitAndHarvestErrorsFatal ==
    [][(/\ call.name \in {"submit", "results"}
        /\ ret.tag = "Err"
        /\ call' = Idle) =>
          /\ pc' = "panicked"
          /\ panic' # "none"]_vars

\* C21: when the worker has processed a flush message, having called
\* submit for it whatever batched was, nothing is left in the batch.
C21_FlushLeavesNothingBatched ==
    [][(/\ pc = "exec"
        /\ wop.kind = "flush"
        /\ pc' = "top") =>
          /\ call.name = "submit"
          /\ Len(iocbp') = 0]_vars

\* the tokens of the operations batched or submitted
FutPending == {queued[a].tok : a \in IocbAddrs} \ {Noop.tok}

\* the buffers moved into the call that made the channel of token t
FutBufs(t) ==
    IF t \in TokOf.pread THEN BufOf.pread
    ELSE IF t \in TokOf.pwrite THEN BufOf.pwrite
    ELSE IF t \in TokOf.preadv THEN BufOf.preadv
    ELSE <<>>

\* C22: when flush of the future front-end has returned Ok, submitted is 0
\* and every operation that was queued and is no longer pending has had
\* exactly one message, carrying its own buffers, sent on its own channel,
\* while nothing has been sent on the channel of any other call; flush
\* leaves its harvest loop only with submitted = 0.
C22_FlushDeliversEachCompletionOnce ==
    /\ (fret = "Ok" /\ fpc = "idle" /\ call.name # "submit") =>
          /\ submitted = 0
          /\ \A t \in FutCalls :
                IF futs[t] = "receiver" /\ t \notin FutPending
                THEN /\ Len(sent[t]) = 1
                     /\ sent[t][1].bufs = FutBufs(t)
                ELSE sent[t] = <<>>
    /\ fpc = "harvest" => submitted + Len(call.events) > 0

\* flush returned Ok after the write and the read had completed, their
\* buffers sent back, while an operation queued since is still batched
C22_Witness ==
    /\ fret = "Ok"
    /\ fpc = "idle"
    /\ call = Idle
    /\ sent[1] # <<>>
    /\ sent[2] # <<>>
    /\ \E t \in FutCalls : futs[t] = "receiver" /\ t \in FutPending

(***************************************************************************)
(* Properties of the aligned buffers.                                      *)
(***************************************************************************)
\* the smallest multiple of align that is >= size
RoundUp(size, align) == ((size + align - 1) \div align) * align

IsPowerOfTwo(n) == \E k \in 0..WordBits : n = 2 ^ k

AllocNames == {"alloc_uninit", "alloc", "from_slice"}

\* C23: every buffer the caller holds after calls that all returned
\* normally has valid <= capacity and a capacity that is a multiple of its
\* alignment.
C23_ValidWithinAlignedCapacity ==
    \A b \in {abuf, aclone} :
        (BufReady /\ b.st = "some") =>
            /\ b.valid <= b.len
            /\ b.len % b.align = 0

\* C24: an allocator called with a size and an alignment panics exactly
\* when the alignment is 0 or not a power of two or no multiple of the
\* alignment >= size fits a uint; when it returns a buffer, its capacity
\* is the smallest multiple of the alignment >= size, its alignment the
\* one asked for, and valid is 0 for alloc_uninit and the capacity for
\* alloc and from_slice.
C24_AllocRoundsUpToAlignment ==
    acall.name \in AllocNames =>
        /\ (aret.tag = "Panic") <=>
              (\/ ~IsPowerOfTwo(acall.b)
               \/ RoundUp(acall.a, acall.b) >= Word)
        /\ (aret.tag = "Some") =>
              /\ abuf.len = RoundUp(acall.a, acall.b)
              /\ abuf.align = acall.b
              /\ Len(abuf.bytes) = abuf.len
              /\ abuf.valid = IF acall.name = "alloc_uninit" THEN 0
                              ELSE abuf.len

\* alloc(17, 16) returned a zeroed buffer of capacity 32
C24_Witness ==
    /\ acall = ACall("alloc", 17, 16)
    /\ aret.tag = "Some"
    /\ abuf.len = 32
    /\ abuf.valid = 32
    /\ abuf.bytes[32] = 0

\* C25: an extend that returns true for a size >= the capacity leaves the
\* capacity at the smallest multiple of the alignment >= size, the
\* appended bytes 0 and valid at the new capacity; a shrink that returns
\* true for a size <= the capacity leaves the capacity at the smallest
\* multiple of the alignment >= size.
C25_ExtendShrinkRoundUp ==
    [][(/\ acall'.name \in {"extend", "shrink"}
        /\ aret'.tag = "Ok"
        /\ aret'.v = 1) =>
          /\ (acall'.name = "extend" /\ acall'.a >= abuf.len) =>
                /\ abuf'.len = RoundUp(acall'.a, abuf.align)
                /\ abuf'.valid = abuf'.len
                /\ \A i \in (abuf.len + 1)..abuf'.len : abuf'.bytes[i] = 0
          /\ (acall'.name = "shrink" /\ acall'.a <= abuf.len) =>
                abuf'.len = RoundUp(acall'.a, abuf.align)]_vars

\* C26: the clone of a buffer has the capacity, the alignment and the
\* valid length of the source, and the same bytes in its valid prefix.
C26_CloneCopiesValidPrefix ==
    (acall.name = "clone" /\ aret.tag = "Ok") =>
        /\ aclone.len = abuf.len
        /\ aclone.align = abuf.align
        /\ aclone.valid = abuf.valid
        /\ SubSeq(aclone.bytes, 1, abuf.valid)
              = SubSeq(abuf.bytes, 1, abuf.valid)

\* C27 as stated: rdupdate(base, len) that returns sets valid to base + len
\* whenever base + len is at least the valid length before and at most the
\* capacity, and leaves it unchanged otherwise.
C27_RdupdateAdvancesWheneverPastValid ==
    [][(acall'.name = "rdupdate" /\ aret'.tag = "Ok") =>
          abuf'.valid =
              IF /\ acall'.a + acall'.b >= abuf.valid
                 /\ acall'.a + acall'.b <= abuf.len
              THEN acall'.a + acall'.b
              ELSE abuf.valid]_vars

\* C27, amended: rdupdate(base, len) that returns sets valid to base + len
\* when base <= valid < base + len, which is then at most the capacity,
\* and leaves it unchanged otherwise; valid never decreases and nothing
\* else of the buffer changes; rdbuf is the whole capacity and wrbuf the
\* valid prefix.
C27_RdupdateAdvancesContiguousPrefix ==
    /\ [][(acall'.name = "rdupdate" /\ aret'.tag = "Ok") =>
            (/\ abuf'.valid =
                   IF /\ acall'.a <= abuf.valid
                      /\ acall'.a + acall'.b > abuf.valid
                   THEN acall'.a + acall'.b
                   ELSE abuf.valid
             /\ abuf'.valid >= abuf.valid
             /\ abuf'.valid <= abuf.len
             /\ abuf' = [abuf EXCEPT !.valid = abuf'.valid])]_vars
    /\ [](/\ (acall.name = "rdbuf" /\ aret.tag = "Ok") =>
                (/\ aret.view = abuf.bytes
                 /\ Len(aret.view) = abuf.len)
          /\ (acall.name = "wrbuf" /\ aret.tag = "Ok") =>
                (/\ Len(aret.view) = abuf.valid
                 /\ \A i \in 1..abuf.valid : aret.view[i] = abuf.bytes[i]))

\* rdupdate(4, 4) moved the valid length of a buffer from 4 to 8, short of
\* its capacity
C27_Witness ==
    /\ acall = ACall("rdupdate", 4, 4)
    /\ aret.tag = "Ok"
    /\ abuf.valid = 8
    /\ abuf.len > 8

(***************************************************************************)
(* Properties of the direct-I/O file handle.                               *)
(***************************************************************************)
\* C28: pread and pwrite of the direct-I/O file handle never return the
\* Interrupted error to their caller: a system call that fails with EINTR
\* is made again and the outcome of the first call that is not interrupted
\* is what the caller gets.
C28_SyncIoRetriesOnEintr ==
    (dcall.name \in {"pread", "pwrite"} /\ dret.tag = "Err") =>
        dret.n # EINTR


\* C29: the worker is blocked waiting for a message only with at most
\* LowWater blocks batched, and it comes to wait either straight from the
\* top of the loop with at most LowWater blocks batched or from the
\* submit it called because more were batched; with more than LowWater
\* batched at the top of the loop the worker's next step is that submit.
C29_SubmitsAboveLowWaterBeforeBlocking ==
    /\ [](pc = "wait" => batched <= LowWater)
    /\ [][(pc = "top" /\ pc' # pc /\ LoopCond(closed, pending)
               /\ batched > LowWater)
              => pc' = "low_submit"]_vars
    /\ [][(pc # "wait" /\ pc' = "wait")
              => \/ pc = "top" /\ batched <= LowWater
                 \/ pc = "low_submit" /\ call.name = "submit"]_vars

\* the worker blocked after the low-water submit, of which the kernel took
\* a part
C29_Witness ==
    /\ pc = "wait"
    /\ call.name = "none"
    /\ submitted > 0
    /\ batched = LowWater

\* C30: a step that takes the worker out of its wait while its context is
\* full or it has seen the inbound channel closed consumes one message of
\* the event-fd stream and leaves the inbound channel, the closure in hand
\* and the closed flag alone; in a wait with neither, the worker can take
\* whichever is there, a message of the inbound channel (or its closing) or
\* one of the event-fd stream.
C30_FullOrClosedWaitsOnEventFdOnly ==
    /\ [][(pc = "wait" /\ pc' # pc /\ (closed \/ full))
              => /\ evmsgs' = evmsgs - 1
                 /\ inq' = inq /\ wop' = wop /\ closed' = closed]_vars
    /\ [][(Len(inq') < Len(inq) \/ (closed' /\ ~closed))
              => (pc = "wait" /\ ~closed /\ ~full)]_vars
    /\ []((pc = "wait" /\ panic = "none" /\ ~closed /\ ~full
            /\ (inq # <<>> \/ cclosed))
              => ENABLED worker_recv)
    /\ []((pc = "wait" /\ panic = "none" /\ evmsgs > 0)
              => ENABLED worker_evfd)

\* the worker waiting with a full context while a closure is in the inbound
\* channel and a completion is announced on the event-fd stream
C30_Witness ==
    /\ pc = "wait"
    /\ full
    /\ inq # <<>>
    /\ evmsgs > 0

\* C31: whenever the worker is in proc_results at its call of
\* results(1, maxops, None), at least one operation is submitted, so the
\* call can return.
C31_HarvestOnlyWithSubmitted ==
    (pc = "harvest" /\ call = Idle) => submitted > 0

\* the queueing calls among those the client of the channel makes
ChanOps == {m \in ChanMsgs : m.kind # "flush"}

\* the messages on the result channel that carry the operation of call m
ResultsOf(m) ==
    {i \in DOMAIN resq :
        /\ resq[i].op.tok = m.tok
        /\ resq[i].op.bufs = (IF m.kind \in DOMAIN BufOf THEN BufOf[m.kind]
                              ELSE <<>>)}

\* C32: no operation is reported twice on the result channel, and, the
\* worker running and the kernel completing and signalling what it
\* accepted, every operation the client sent before it closed the channel
\* is eventually reported on the result channel with its buffers and
\* token, unless the worker has panicked.
C32_EverySentOperationReportedOnce ==
    /\ [](\A m \in ChanOps : Cardinality(ResultsOf(m)) <= 1)
    /\ \A m \in ChanOps :
          (m \notin tosend /\ cclosed /\ panic = "none")
              ~> (ResultsOf(m) # {} \/ panic # "none")

\* C33: the worker makes the queueing call of a closure only while its
\* context is not full, the call succeeds, and no message on the result
\* channel carries the EAGAIN error.
C33_ClosuresQueueOnlyWhenNotFull ==
    /\ [][(pc = "exec" /\ call = Idle /\ call'.name \in QueueNames)
              => (~full /\ ret'.tag = "Ok")]_vars
    /\ [](\A i \in DOMAIN resq :
              ~(resq[i].res.tag = "Err" /\ resq[i].res.n = EAGAIN))

\* the slots of the context's pool that are allocated
AllocSlots == {i \in DOMAIN iocb.pool : iocb.pool[i].tag = "Alloc"}

\* the address of the control block in slot i
IocbAddr(i) == IndexAddr(i) + IocbOff

\* C34: the number of allocated slots of the context's pool is batched +
\* submitted; the control block of every allocated slot is either once in
\* the pending vector or once in flight in the kernel, never both, and
\* nothing else is in either; submit hands the kernel no control block
\* that is in flight already.
C34_SlotsPendingOrInFlightOnce ==
    /\ [](/\ Cardinality(AllocSlots) = batched + submitted
          /\ Cardinality(inflight) = submitted
          /\ \A i \in AllocSlots :
                Cardinality({j \in DOMAIN iocbp : iocbp[j] = IocbAddr(i)})
                  + Cardinality({x \in inflight : x.obj = IocbAddr(i)}) = 1
          /\ \A j \in DOMAIN iocbp : \E i \in AllocSlots : iocbp[j] = IocbAddr(i)
          /\ \A x \in inflight : \E i \in AllocSlots : x.obj = IocbAddr(i))
    /\ [][\A x \in inflight' \ inflight :
              \A y \in inflight : y.obj # x.obj]_vars

\* a harvest has freed one slot while the control block of the other
\* allocated slot waits in the pending vector
C34_Witness ==
    /\ call.name = "results"
    /\ Len(ret.pairs) = 1
    /\ submitted = 0
    /\ Len(iocbp) = 1
    /\ Cardinality(AllocSlots) = 1

\* C35: an allocidx that returns an index returns that of a slot that was
\* Free, stores its payload there and leaves every other slot as it was;
\* when the head of the free list names an allocated slot, allocidx panics
\* and changes nothing.
C35_AllocidxNeverReusesLiveSlot ==
    [][pcall'.name = "allocidx" =>
          /\ pret'.tag = "Ok" =>
                /\ pret'.v \in PoolIdx
                /\ tpool.pool[pret'.v].tag = "Free"
                /\ tpool'.pool[pret'.v] = Alloc(pcall'.arg)
                /\ \A j \in PoolIdx \ {pret'.v} :
                      tpool'.pool[j] = tpool.pool[j]
          /\ (/\ tpool.freelist # -1
              /\ tpool.pool[tpool.freelist].tag = "Alloc") =>
                (pret'.tag = "Panic" /\ tpool' = tpool)]_vars

\* allocidx has returned a slot that freeidx left linked to itself, so
\* the head of the free list names the slot just allocated
C35_Witness ==
    /\ pcall.name = "allocidx"
    /\ pret.tag = "Ok"
    /\ tpool.freelist = pret.v
    /\ tpool.pool[pret.v].tag = "Alloc"

\* C36: when flush of the future front-end returns Ok, nothing is batched
\* and nothing is submitted, and a message has been sent on the channel of
\* every future made by a queueing call before it.
C36_FlushOkLeavesNothingPending ==
    [][(fpc = "loop" /\ fpc' = "idle" /\ fret' = "Ok") =>
          /\ Len(iocbp') = 0
          /\ submitted' = 0
          /\ \A t \in FutCalls :
                futs'[t] = "receiver" => sent'[t] # <<>>]_vars

\* C37: every operation the future front-end harvests carries a sender
\* token of its own kind, the Fsync token for both syncs, and the results
\* match never takes one of its fatal mismatch arms.
C37_HarvestedTokenMatchesKind ==
    /\ [](panic # "badness")
    /\ []((fpc = "harvest" /\ call.name = "results" /\ ret.tag = "Ok") =>
             \A i \in DOMAIN ret.pairs :
                LET op == ret.pairs[i].op IN
                /\ op.kind \in {"Pread", "Preadv", "Pwrite", "Pwritev"}
                      => IoFut[op.tok] = op.kind
                /\ op.kind \in {"Fsync", "Fdsync"}
                      => IoFut[op.tok] = "Fsync")

\* the completions of an fdsync and of an fsync have been sent, each on
\* the Fsync sender it was queued with
C37_Witness ==
    /\ sent[7] # <<>>
    /\ sent[5] # <<>>
    /\ panic = "none"

\* C38: a queueing call of the future front-end made while the context is
\* full leaves batched, submitted and the pool as they were and returns a
\* Future made from the value (Err(EAGAIN), the caller's buffers), the
\* buffers back with the caller; one made while it is not full queues the
\* operation and returns a Future made from a receiver, on whose channel
\* nothing is sent while the operation is pending and only the harvest of
\* a flush sends.
C38_FullQueueResolvesWithEagain ==
    /\ [][(fpc = "idle" /\ call = Idle /\ call'.name \in QueueNames) =>
             IF full
             THEN /\ ret'.tag = "Err"
                  /\ <<iocb', iocbp', submitted'>> = <<iocb, iocbp, submitted>>
             ELSE /\ ret'.tag = "Ok"
                  /\ Len(iocbp') = Len(iocbp) + 1]_vars
    /\ [][(fpc = "idle" /\ call.name \in QueueNames /\ call' = Idle) =>
             IF ret.tag = "Err"
             THEN /\ futs'[call.op.tok] = "value"
                  /\ fval'[call.op.tok] =
                        [res |-> [tag |-> "Err", n |-> EAGAIN],
                         bufs |-> FutBufs(call.op.tok)]
                  /\ Range(FutBufs(call.op.tok)) \subseteq owned'
             ELSE /\ futs'[call.op.tok] = "receiver"
                  /\ sent'[call.op.tok] = <<>>]_vars
    /\ [](\A t \in FutCalls :
             (futs[t] = "receiver" /\ t \in FutPending) => sent[t] = <<>>)
    /\ [][sent' # sent => (fpc = "harvest" /\ call.name = "results")]_vars

\* What does hold of the queueing calls of the future front-end: the
\* same, except that a call made while the context is not full either
\* queues the operation or panics in Pool::allocidx.
FutQueueingCallsThatReturn ==
    /\ [][(fpc = "idle" /\ call = Idle /\ call'.name \in QueueNames) =>
             IF full
             THEN /\ ret'.tag = "Err"
                  /\ <<iocb', iocbp', submitted'>> = <<iocb, iocbp, submitted>>
             ELSE \/ ret'.tag = "Panic"
                  \/ ret'.tag = "Ok" /\ Len(iocbp') = Len(iocbp) + 1]_vars
    /\ [][(fpc = "idle" /\ call.name \in QueueNames /\ call' = Idle) =>
             IF ret.tag = "Err"
             THEN /\ futs'[call.op.tok] = "value"
                  /\ fval'[call.op.tok] =
                        [res |-> [tag |-> "Err", n |-> EAGAIN],
                         bufs |-> FutBufs(call.op.tok)]
                  /\ Range(FutBufs(call.op.tok)) \subseteq owned'
             ELSE /\ futs'[call.op.tok] = "receiver"
                  /\ sent'[call.op.tok] = <<>>]_vars
    /\ [](\A t \in FutCalls :
             (futs[t] = "receiver" /\ t \in FutPending) => sent[t] = <<>>)
    /\ [][sent' # sent => (fpc = "harvest" /\ call.name = "results")]_vars

\* C39: io_destroy is not called while the context is live, has been
\* called exactly once, on the context's handle, when the context has been
\* dropped, and has not been called when Iocontext::new failed to create
\* the context: then new has returned Err and nothing has panicked.
C39_DestroyOncePerCreatedContext ==
    /\ cst = "live" => destroys = <<>>
    /\ cst = "dropped" => destroys = <<[ctx |-> KernelCtx, ret |-> 0]>>
    /\ cst \notin {"none", "live", "dropped"} =>
          /\ cst = "err"
          /\ destroys = <<>>
          /\ panic = "none"

\* C40: the timeout results passes to io_getevents is the null pointer for
\* None, (0 s, 0 ns) for Some of zero or of a negative duration, and for
\* Some of a positive duration its seconds and nanoseconds, the
\* nanoseconds within 0 .. 10^9 - 1.
C40_TimeoutArgument ==
    tsarg # NoTimespec =>
       IF tmo.tag = "None"
       THEN tsarg.st = "Null"
       ELSE IF tmo.secs < 0 \/ (tmo.secs = 0 /\ tmo.nanos = 0)
       THEN tsarg = [st |-> "Ok", tv_sec |-> 0, tv_nsec |-> 0]
       ELSE /\ tsarg.st = "Ok"
            /\ 0 <= tsarg.tv_nsec /\ tsarg.tv_nsec < NanosPerSec
            /\ tsarg.tv_sec = tmo.secs
            /\ tsarg.tv_nsec = tmo.nanos

====
